---- MODULE Spec2Model ----
(***************************************************************************)
(* CBOR codec of HeliosLang/effect: the byte cursor (Bytes.Stream), the    *)
(* head codec, the integer codec, lists and the constructor-tag scheme.    *)
(*                                                                         *)
(* A JavaScript bigint is a record [neg, mag]: mag is the magnitude as a   *)
(* sequence of limbs in base 65536, least significant first, without       *)
(* leading zero limbs (zero is <<>>, and zero is never negative).          *)
(* A result of an effect is a record [ok, err, val, pos]: err is "none",   *)
(* "EndOfStream", "DecodeError" (the two tagged failures) or "Error" (a    *)
(* thrown exception); pos is where the operation left the cursor it was    *)
(* given.  Positions are 0-based as in the source; bytes[pos + 1] is the   *)
(* byte at position pos.                                                   *)
(***************************************************************************)
EXTENDS Integers, Sequences, FiniteSets, TLC

VARIABLES bytes, cursors, call, ret, input, wire, phase, closure

vars == <<bytes, cursors, call, ret, input, wire, phase, closure>>

----------------------------------------------------------------------------
(* bigint arithmetic *)

Base == 256 * 256

Byte == 0 .. 255

RECURSIVE BigNorm(_)
BigNorm(a) ==
  IF a = <<>> THEN <<>>
  ELSE IF a[Len(a)] = 0 THEN BigNorm(SubSeq(a, 1, Len(a) - 1))
  ELSE a

RECURSIVE BigAddC(_, _, _)
BigAddC(a, b, c) ==
  IF a = <<>> /\ b = <<>> THEN (IF c = 0 THEN <<>> ELSE <<c>>)
  ELSE LET x == IF a = <<>> THEN 0 ELSE Head(a)
           y == IF b = <<>> THEN 0 ELSE Head(b)
           s == x + y + c
       IN  <<s % Base>> \o BigAddC(IF a = <<>> THEN <<>> ELSE Tail(a),
                                   IF b = <<>> THEN <<>> ELSE Tail(b),
                                   s \div Base)

BigAdd(a, b) == BigNorm(BigAddC(a, b, 0))

RECURSIVE BigMulC(_, _, _)
BigMulC(a, k, c) ==
  IF a = <<>> THEN (IF c = 0 THEN <<>> ELSE <<c % Base>> \o BigMulC(<<>>, k, c \div Base))
  ELSE LET s == Head(a) * k + c
       IN  <<s % Base>> \o BigMulC(Tail(a), k, s \div Base)

\* a * k for a small factor 0 <= k <= 256
BigMulSmall(a, k) == BigNorm(BigMulC(a, k, 0))

\* long division of a by a small divisor 1 <= k <= 256, from the top limb down:
\* <<quotient limbs (least significant first), remainder>>
RECURSIVE BigDivRec(_, _, _, _, _)
BigDivRec(a, k, i, r, q) ==
  IF i = 0 THEN <<BigNorm(q), r>>
  ELSE LET cur == r * Base + a[i]
       IN  BigDivRec(a, k, i - 1, cur % k, <<cur \div k>> \o q)

BigDivSmall(a, k) == BigDivRec(a, k, Len(a), 0, <<>>)[1]

BigModSmall(a, k) == BigDivRec(a, k, Len(a), 0, <<>>)[2]

RECURSIVE BigDec(_)
BigDec(a) ==
  IF a = <<>> THEN <<>>
  ELSE IF Head(a) > 0 THEN BigNorm(<<Head(a) - 1>> \o Tail(a))
  ELSE <<Base - 1>> \o BigDec(Tail(a))

BigInc(a) == BigAdd(a, <<1>>)

\* -1, 0, 1 as a < b, a = b, a > b (both normalised)
RECURSIVE BigCmp(_, _)
BigCmp(a, b) ==
  IF Len(a) # Len(b) THEN (IF Len(a) < Len(b) THEN -1 ELSE 1)
  ELSE IF a = <<>> THEN 0
  ELSE IF a[Len(a)] # b[Len(b)] THEN (IF a[Len(a)] < b[Len(b)] THEN -1 ELSE 1)
  ELSE BigCmp(SubSeq(a, 1, Len(a) - 1), SubSeq(b, 1, Len(b) - 1))

BigLE(a, b) == BigCmp(a, b) <= 0

BigLT(a, b) == BigCmp(a, b) < 0

\* BigInt(k) of a non-negative number k below 2^31
RECURSIVE BigOfNat(_)
BigOfNat(k) == IF k = 0 THEN <<>> ELSE <<k % Base>> \o BigOfNat(k \div Base)

\* Number(n) of a magnitude; magnitudes of more than one limb are only ever
\* used as byte counts, where anything above the buffer length acts alike
BigToNat(a) ==
  IF a = <<>> THEN 0
  ELSE IF Len(a) = 1 THEN a[1]
  ELSE IF Len(a) = 2 /\ a[2] < 256 THEN a[2] * Base + a[1]
  ELSE 256 * Base

IntOf(neg, mag) == [neg |-> neg /\ mag # <<>>, mag |-> mag]

IntOfNat(k) == IntOf(FALSE, BigOfNat(k))

\* -n - 1n
IntNegMinusOne(n) ==
  IF n.neg THEN IntOf(FALSE, BigDec(n.mag)) ELSE IntOf(TRUE, BigInc(n.mag))

\* 2n << 63n
TwoPow64 == <<0, 0, 0, 0, 1>>

\* 256n * 256n * 256n * 256n
TwoPow32 == <<0, 0, 1>>

----------------------------------------------------------------------------
(* BigEndian *)

\* no lazy list decoder has been made
NoClosure == [variant |-> "none", indef |-> FALSE, n |-> 0, i |-> 0, done |-> FALSE]

Ok(v, p) == [ok |-> TRUE, err |-> "none", val |-> v, pos |-> p]

Fail(e, p) == [ok |-> FALSE, err |-> e, val |-> <<>>, pos |-> p]

\* yield* r inside Effect.gen: the rest of the generator runs on the result of
\* r, and a failure of r ends the generator with that failure
Bind(r, Rest(_)) == IF r.ok THEN Rest(r) ELSE r

\* const v = ...: the rest of the function runs with v
With(v, Rest(_)) == Rest(v)

\* the loop of BigEndian.decode: i runs from the last byte to the first
RECURSIVE BigEndianDecodeLoop(_, _, _, _)
BigEndianDecodeLoop(bs, i, p, total) ==
  IF i = 0 THEN total
  ELSE BigEndianDecodeLoop(bs, i - 1, BigMulSmall(p, 256),
                           BigAdd(total, BigMulSmall(p, bs[i])))

\* Either: [ok, val]
BigEndianDecode(bs) ==
  IF Len(bs) = 0 THEN [ok |-> FALSE, val |-> <<>>]
  ELSE [ok |-> TRUE, val |-> BigEndianDecodeLoop(bs, Len(bs), <<1>>, <<>>)]

RECURSIVE BigEndianEncodeLoop(_, _)
BigEndianEncodeLoop(x, res) ==
  IF x = <<>> THEN res
  ELSE BigEndianEncodeLoop(BigDivSmall(x, 256), <<BigModSmall(x, 256)>> \o res)

\* of a non-negative magnitude
BigEndianEncode(x) == IF x = <<>> THEN <<0>> ELSE BigEndianEncodeLoop(x, <<>>)

----------------------------------------------------------------------------
(* Bytes.Stream: the operations of StreamImpl on a cursor at position p of bs *)

isAtEnd(bs, p) == p >= Len(bs)

peekOne(bs, p) ==
  IF p < Len(bs) THEN Ok(bs[p + 1], p) ELSE Fail("EndOfStream", p)

peekMany(bs, p, n) ==
  IF n < 0 THEN Fail("Error", p)
  ELSE IF p + n <= Len(bs) THEN Ok(SubSeq(bs, p + 1, p + n), p)
  ELSE Fail("EndOfStream", p)

peekRemaining(bs, p) == Ok(SubSeq(bs, p + 1, Len(bs)), p)

shiftOne(bs, p) ==
  IF p < Len(bs) THEN Ok(bs[p + 1], p + 1) ELSE Fail("EndOfStream", p)

\* shiftMany with the bound check off by one: reading up to the last byte fails
shiftManyOffByOne(bs, p, n) ==
  IF n < 0 THEN Fail("Error", p)
  ELSE IF p + n < Len(bs) THEN Ok(SubSeq(bs, p + 1, p + n), p + n)
  ELSE Fail("EndOfStream", p)

shiftMany(bs, p, n) ==
  IF n < 0 THEN Fail("Error", p)
  ELSE IF p + n <= Len(bs) THEN Ok(SubSeq(bs, p + 1, p + n), p + n)
  ELSE Fail("EndOfStream", p)

\* shiftRemaining that returns the rest and forgets to move the cursor
shiftRemainingKeepsPos(bs, p) == Ok(SubSeq(bs, p + 1, Len(bs)), p)

shiftRemaining(bs, p) == Ok(SubSeq(bs, p + 1, Len(bs)), Len(bs))

\* the position of the new cursor over the same buffer
copy(bs, p) == p

----------------------------------------------------------------------------
(* head codec *)

EncOk(bs) == [ok |-> TRUE, bytes |-> bs]

EncFail == [ok |-> FALSE, bytes |-> <<>>]

EncCat(a, b) == IF a.ok /\ b.ok THEN EncOk(a.bytes \o b.bytes) ELSE EncFail

\* e.unshift(0) while e.length < w
RECURSIVE PadLeft(_, _)
PadLeft(e, w) == IF Len(e) < w THEN PadLeft(<<0>> \o e, w) ELSE e

\* Number(n) of a bigint
NumberOfInt(n) == IF n.neg THEN 0 - BigToNat(n.mag) ELSE BigToNat(n.mag)

\* encodeDefHead that still takes 24 for an inline argument
encodeDefHeadInline24(m, n) ==
  IF n.neg \/ BigLE(n.mag, BigOfNat(24)) THEN EncOk(<<32 * m + NumberOfInt(n)>>)
  ELSE IF BigLE(n.mag, BigOfNat(255)) THEN EncOk(<<32 * m + 24, NumberOfInt(n)>>)
  ELSE IF BigLE(n.mag, BigDec(BigOfNat(256 * 256)))
    THEN EncOk(<<32 * m + 25,
                 BigModSmall(BigDivSmall(n.mag, 256), 256),
                 BigModSmall(n.mag, 256)>>)
  ELSE IF BigLE(n.mag, BigDec(TwoPow32))
    THEN EncOk(<<32 * m + 26>> \o PadLeft(BigEndianEncode(n.mag), 4))
  ELSE IF BigLE(n.mag, BigDec(TwoPow64))
    THEN EncOk(<<32 * m + 27>> \o PadLeft(BigEndianEncode(n.mag), 8))
  ELSE EncFail

encodeDefHead(m, n) ==
  IF n.neg \/ BigLE(n.mag, BigOfNat(23)) THEN EncOk(<<32 * m + NumberOfInt(n)>>)
  ELSE IF BigLE(BigOfNat(24), n.mag) /\ BigLE(n.mag, BigOfNat(255))
    THEN EncOk(<<32 * m + 24, NumberOfInt(n)>>)
  ELSE IF BigLE(BigOfNat(256), n.mag) /\ BigLE(n.mag, BigDec(BigOfNat(256 * 256)))
    THEN EncOk(<<32 * m + 25,
                 BigModSmall(BigDivSmall(n.mag, 256), 256),
                 BigModSmall(n.mag, 256)>>)
  ELSE IF BigLE(BigOfNat(256 * 256), n.mag) /\ BigLE(n.mag, BigDec(TwoPow32))
    THEN EncOk(<<32 * m + 26>> \o PadLeft(BigEndianEncode(n.mag), 4))
  ELSE IF BigLE(TwoPow32, n.mag) /\ BigLE(n.mag, BigDec(TwoPow64))
    THEN EncOk(<<32 * m + 27>> \o PadLeft(BigEndianEncode(n.mag), 8))
  ELSE EncFail

encodeIndefHead(m) == EncOk(<<32 * m + 31>>)

\* [m, n0]
decodeFirstHeadByte(b0) == [m |-> b0 \div 32, n0 |-> b0 % 32]

\* Effect.map(BigEndian.decode): a Left becomes a DecodeError, a Right the value
OfEither(d, p) == IF d.ok THEN Ok(d.val, p) ELSE Fail("DecodeError", p)

\* nBytes bytes of the cursor as a big-endian unsigned integer
decodeIntInternalN(bs, p, nBytes) ==
  Bind(shiftMany(bs, p, nBytes), LAMBDA r : OfEither(BigEndianDecode(r.val), r.pos))

\* [m, yield* decodeIntInternal(stream, nBytes)]
decodeDefHeadArgument(bs, p, m, nBytes) ==
  Bind(decodeIntInternalN(bs, p, nBytes), LAMBDA l : Ok([m |-> m, n |-> l.val], l.pos))

\* the head's first byte and what follows it, once the byte is read
decodeDefHeadAfterFirst(bs, first, h) ==
  IF h.n0 <= 23 THEN Ok([m |-> h.m, n |-> BigOfNat(h.n0)], first.pos)
  ELSE IF h.n0 = 24 THEN decodeDefHeadArgument(bs, first.pos, h.m, 1)
  ELSE IF h.n0 = 25 THEN
    IF h.m = 7 THEN Fail("DecodeError", first.pos)
    ELSE decodeDefHeadArgument(bs, first.pos, h.m, 2)
  ELSE IF h.n0 = 26 THEN
    IF h.m = 7 THEN Fail("DecodeError", first.pos)
    ELSE decodeDefHeadArgument(bs, first.pos, h.m, 4)
  ELSE IF h.n0 = 27 THEN
    IF h.m = 7 THEN Fail("DecodeError", first.pos)
    ELSE decodeDefHeadArgument(bs, first.pos, h.m, 8)
  ELSE Fail("DecodeError", first.pos)

\* decodeDefHead without the test for the end of the bytes
decodeDefHeadNoEmptyCheck(bs, p) ==
  Bind(shiftOne(bs, p), LAMBDA first :
    decodeDefHeadAfterFirst(bs, first, decodeFirstHeadByte(first.val)))

\* decodeDefHead that hands the marker 31 of the major types 2, 3, 4, 5 and 7
\* to its caller as an argument
decodeDefHeadIndefAsArgument(bs, p) ==
  IF isAtEnd(bs, p) THEN Fail("DecodeError", p)
  ELSE
    Bind(shiftOne(bs, p), LAMBDA first :
      With(decodeFirstHeadByte(first.val), LAMBDA h :
        IF h.m \in {2, 3, 4, 5, 7} /\ h.n0 = 31
          THEN Ok([m |-> h.m, n |-> BigOfNat(h.n0)], first.pos)
        ELSE decodeDefHeadAfterFirst(bs, first, h)))

\* val: [m, n], n a magnitude
decodeDefHead(bs, p) ==
  IF isAtEnd(bs, p) THEN Fail("DecodeError", p)
  ELSE
    Bind(shiftOne(bs, p), LAMBDA first :
      With(decodeFirstHeadByte(first.val), LAMBDA h :
        IF h.n0 <= 23 THEN Ok([m |-> h.m, n |-> BigOfNat(h.n0)], first.pos)
        ELSE IF h.n0 = 24 THEN decodeDefHeadArgument(bs, first.pos, h.m, 1)
        ELSE IF h.n0 = 25 THEN
          IF h.m = 7 THEN Fail("DecodeError", first.pos)
          ELSE decodeDefHeadArgument(bs, first.pos, h.m, 2)
        ELSE IF h.n0 = 26 THEN
          IF h.m = 7 THEN Fail("DecodeError", first.pos)
          ELSE decodeDefHeadArgument(bs, first.pos, h.m, 4)
        ELSE IF h.n0 = 27 THEN
          IF h.m = 7 THEN Fail("DecodeError", first.pos)
          ELSE decodeDefHeadArgument(bs, first.pos, h.m, 8)
        ELSE IF h.m \in {2, 3, 4, 5, 7} /\ h.n0 = 31 THEN Fail("DecodeError", first.pos)
        ELSE Fail("DecodeError", first.pos)))

peekMajorType(bs, p) == Bind(peekOne(bs, p), LAMBDA r : Ok(r.val \div 32, p))

peekMajorAndSimpleMinorType(bs, p) ==
  Bind(peekOne(bs, p), LAMBDA r : Ok(decodeFirstHeadByte(r.val), p))

----------------------------------------------------------------------------
(* byte strings *)

isIndefBytes(bs, p) == Bind(peekOne(bs, p), LAMBDA r : Ok(r.val = 2 * 32 + 31, p))

RECURSIVE decodeBytesChunks(_, _, _)
decodeBytesChunks(bs, p, res) ==
  Bind(peekOne(bs, p), LAMBDA pk :
    IF pk.val # 255 THEN
      Bind(decodeDefHead(bs, p), LAMBDA h :
        IF BigLT(BigOfNat(64), h.val.n) THEN Fail("DecodeError", h.pos)
        ELSE Bind(shiftMany(bs, h.pos, BigToNat(h.val.n)), LAMBDA c :
               decodeBytesChunks(bs, c.pos, res \o c.val)))
    ELSE Bind(shiftOne(bs, p), LAMBDA e : Ok(res, e.pos)))

\* decodeBytes that peeks at the break byte of the indefinite form and leaves it unread
decodeBytesBreakUnread(bs, p) ==
  Bind(isIndefBytes(bs, p), LAMBDA indef :
    IF indef.val THEN
      Bind(shiftOne(bs, p), LAMBDA s :
        Bind(decodeBytesChunks(bs, s.pos, <<>>), LAMBDA r : Ok(r.val, r.pos - 1)))
    ELSE
      Bind(decodeDefHead(bs, p), LAMBDA h :
        IF h.val.m # 2 THEN Fail("DecodeError", h.pos)
        ELSE shiftMany(bs, h.pos, BigToNat(h.val.n))))

decodeBytes(bs, p) ==
  Bind(isIndefBytes(bs, p), LAMBDA indef :
    IF indef.val THEN
      Bind(shiftOne(bs, p), LAMBDA s : decodeBytesChunks(bs, s.pos, <<>>))
    ELSE
      Bind(decodeDefHead(bs, p), LAMBDA h :
        IF h.val.m # 2 THEN Fail("DecodeError", h.pos)
        ELSE shiftMany(bs, h.pos, BigToNat(h.val.n))))

RECURSIVE encodeBytesChunks(_, _)
encodeBytesChunks(bs, res) ==
  IF Len(bs) > 0 THEN
    LET k == IF Len(bs) < 64 THEN Len(bs) ELSE 64
        chunk == SubSeq(bs, 1, k)
    IN  encodeBytesChunks(SubSeq(bs, k + 1, Len(bs)),
                          EncCat(EncCat(res, encodeDefHead(2, IntOfNat(Len(chunk)))),
                                 EncOk(chunk)))
  ELSE EncCat(res, EncOk(<<255>>))

\* encodeBytes that already splits a string of exactly 64 bytes
encodeBytesSplitAt64(bs, splitIntoChunks) ==
  IF Len(bs) < 64 \/ ~splitIntoChunks
    THEN EncCat(encodeDefHead(2, IntOfNat(Len(bs))), EncOk(bs))
  ELSE encodeBytesChunks(bs, encodeIndefHead(2))

encodeBytes(bs, splitIntoChunks) ==
  IF Len(bs) <= 64 \/ ~splitIntoChunks
    THEN EncCat(encodeDefHead(2, IntOfNat(Len(bs))), EncOk(bs))
  ELSE encodeBytesChunks(bs, encodeIndefHead(2))

----------------------------------------------------------------------------
(* integers *)

\* decodeIntInternal(stream) without a byte count: a byte string, big-endian
decodeIntInternal(bs, p) ==
  Bind(decodeBytes(bs, p), LAMBDA r : OfEither(BigEndianDecode(r.val), r.pos))

\* decodeInt that forgets the - 1 of the negative bignum form (tag 3)
decodeIntBignumOffByOne(bs, p) ==
  Bind(decodeDefHead(bs, p), LAMBDA h :
    IF h.val.m = 0 THEN Ok(IntOf(FALSE, h.val.n), h.pos)
    ELSE IF h.val.m = 1 THEN Ok(IntNegMinusOne(IntOf(FALSE, h.val.n)), h.pos)
    ELSE IF h.val.m = 6 THEN
      IF h.val.n = BigOfNat(2) THEN
        Bind(decodeIntInternal(bs, h.pos), LAMBDA r : Ok(IntOf(FALSE, r.val), r.pos))
      ELSE IF h.val.n = BigOfNat(3) THEN
        Bind(decodeIntInternal(bs, h.pos), LAMBDA r : Ok(IntOf(TRUE, r.val), r.pos))
      ELSE Fail("DecodeError", h.pos)
    ELSE Fail("DecodeError", h.pos))

\* decodeInt that reads the byte string after any tag as a positive bignum
decodeIntAnyTag(bs, p) ==
  Bind(decodeDefHead(bs, p), LAMBDA h :
    IF h.val.m = 0 THEN Ok(IntOf(FALSE, h.val.n), h.pos)
    ELSE IF h.val.m = 1 THEN Ok(IntNegMinusOne(IntOf(FALSE, h.val.n)), h.pos)
    ELSE IF h.val.m = 6 THEN
      IF h.val.n = BigOfNat(3) THEN
        Bind(decodeIntInternal(bs, h.pos), LAMBDA r : Ok(IntNegMinusOne(IntOf(FALSE, r.val)), r.pos))
      ELSE Bind(decodeIntInternal(bs, h.pos), LAMBDA r : Ok(IntOf(FALSE, r.val), r.pos))
    ELSE Fail("DecodeError", h.pos))

decodeInt(bs, p) ==
  Bind(decodeDefHead(bs, p), LAMBDA h :
    IF h.val.m = 0 THEN Ok(IntOf(FALSE, h.val.n), h.pos)
    ELSE IF h.val.m = 1 THEN Ok(IntNegMinusOne(IntOf(FALSE, h.val.n)), h.pos)
    ELSE IF h.val.m = 6 THEN
      IF h.val.n = BigOfNat(2) THEN
        Bind(decodeIntInternal(bs, h.pos), LAMBDA r : Ok(IntOf(FALSE, r.val), r.pos))
      ELSE IF h.val.n = BigOfNat(3) THEN
        Bind(decodeIntInternal(bs, h.pos), LAMBDA r : Ok(IntNegMinusOne(IntOf(FALSE, r.val)), r.pos))
      ELSE Fail("DecodeError", h.pos)
    ELSE Fail("DecodeError", h.pos))

\* encodeInt with the two 64-bit boundaries one too far: 2^64 and -(2^64) - 1
\* are handed to encodeDefHead
encodeIntBoundary(n) ==
  IF ~n.neg /\ BigLE(n.mag, TwoPow64) THEN encodeDefHead(0, n)
  ELSE IF ~n.neg
    THEN EncCat(encodeDefHead(6, IntOfNat(2)),
                encodeBytes(BigEndianEncode(n.mag), FALSE))
  ELSE IF n.neg /\ BigLE(n.mag, BigInc(TwoPow64))
    THEN encodeDefHead(1, IntNegMinusOne(n))
  ELSE EncCat(encodeDefHead(6, IntOfNat(3)),
              encodeBytes(BigEndianEncode(IntNegMinusOne(n).mag), FALSE))

encodeInt(n) ==
  IF ~n.neg /\ BigLE(n.mag, BigDec(TwoPow64)) THEN encodeDefHead(0, n)
  ELSE IF ~n.neg /\ BigLE(TwoPow64, n.mag)
    THEN EncCat(encodeDefHead(6, IntOfNat(2)),
                encodeBytes(BigEndianEncode(n.mag), FALSE))
  ELSE IF n.neg /\ BigLE(n.mag, TwoPow64) THEN encodeDefHead(1, IntNegMinusOne(n))
  ELSE EncCat(encodeDefHead(6, IntOfNat(3)),
              encodeBytes(BigEndianEncode(IntNegMinusOne(n).mag), FALSE))

isInt(bs, p) ==
  Bind(peekMajorAndSimpleMinorType(bs, p), LAMBDA r :
    IF r.val.m = 0 \/ r.val.m = 1 THEN Ok(TRUE, p)
    ELSE IF r.val.m = 6 THEN Ok(r.val.n0 = 2 \/ r.val.n0 = 3, p)
    ELSE Ok(FALSE, p))

----------------------------------------------------------------------------
(* booleans and null *)

FALSE_BYTE == 244

TRUE_BYTE == 245

NULL_BYTE == 246

decodeBool(bs, p) ==
  Bind(shiftOne(bs, p), LAMBDA b :
    IF b.val = TRUE_BYTE THEN Ok(TRUE, b.pos)
    ELSE IF b.val = FALSE_BYTE THEN Ok(FALSE, b.pos)
    ELSE Fail("DecodeError", b.pos))

encodeBool(b) == IF b THEN EncOk(<<TRUE_BYTE>>) ELSE EncOk(<<FALSE_BYTE>>)

isBool(bs, p) ==
  Bind(peekOne(bs, p), LAMBDA r : Ok(r.val = FALSE_BYTE \/ r.val = TRUE_BYTE, p))

decodeNull(bs, p) ==
  Bind(shiftOne(bs, p), LAMBDA b :
    IF b.val # NULL_BYTE THEN Fail("DecodeError", b.pos) ELSE Ok("null", b.pos))

encodeNull == EncOk(<<NULL_BYTE>>)

isNull(bs, p) == Bind(peekOne(bs, p), LAMBDA r : Ok(r.val = NULL_BYTE, p))

isBytes(bs, p) == Bind(peekMajorType(bs, p), LAMBDA r : Ok(r.val = 2, p))

isString(bs, p) == Bind(peekMajorType(bs, p), LAMBDA r : Ok(r.val = 3, p))

isDefBytes(bs, p) ==
  Bind(peekMajorType(bs, p), LAMBDA m :
    IF m.val # 2 THEN Ok(FALSE, p)
    ELSE Bind(peekOne(bs, p), LAMBDA b : Ok(b.val # 2 * 32 + 31, p)))

FLOAT16_HEAD == 249

FLOAT32_HEAD == 250

FLOAT64_HEAD == 251

isFloat(bs, p) ==
  Bind(peekOne(bs, p), LAMBDA head :
    Ok(head.val = FLOAT16_HEAD \/ head.val = FLOAT32_HEAD \/ head.val = FLOAT64_HEAD, p))

isFloat16(bs, p) == Bind(peekOne(bs, p), LAMBDA head : Ok(head.val = FLOAT16_HEAD, p))

isFloat32(bs, p) == Bind(peekOne(bs, p), LAMBDA head : Ok(head.val = FLOAT32_HEAD, p))

isFloat64(bs, p) == Bind(peekOne(bs, p), LAMBDA head : Ok(head.val = FLOAT64_HEAD, p))

----------------------------------------------------------------------------
(* Utf8 and text strings. A JS string is a sequence of code points; a code   *)
(* unit D800..DFFF stands for a surrogate that has no partner.               *)

IsSurrogate(c) == 55296 <= c /\ c <= 57343

\* TextEncoder: a lone surrogate is encoded as U+FFFD
Utf8EncodeChar(c0) ==
  LET c == IF IsSurrogate(c0) THEN 65533 ELSE c0
  IN  IF c < 128 THEN <<c>>
      ELSE IF c < 2048 THEN <<192 + (c \div 64), 128 + (c % 64)>>
      ELSE IF c < 65536
        THEN <<224 + (c \div 4096), 128 + ((c \div 64) % 64), 128 + (c % 64)>>
      ELSE <<240 + (c \div 262144), 128 + ((c \div 4096) % 64),
             128 + ((c \div 64) % 64), 128 + (c % 64)>>

\* Utf8.encode
RECURSIVE Utf8Encode(_)
Utf8Encode(str) ==
  IF str = <<>> THEN <<>> ELSE Utf8EncodeChar(Head(str)) \o Utf8Encode(Tail(str))

\* what the decoder needs after the lead byte b: how many continuation bytes,
\* the range of the first of them, and the bits the lead byte gives
\* (needed = -1: no lead byte)
Utf8Lead(b) ==
  IF b <= 127 THEN [needed |-> 0, lower |-> 128, upper |-> 191, bits |-> b]
  ELSE IF 194 <= b /\ b <= 223
    THEN [needed |-> 1, lower |-> 128, upper |-> 191, bits |-> b - 192]
  ELSE IF 224 <= b /\ b <= 239
    THEN [needed |-> 2, lower |-> IF b = 224 THEN 160 ELSE 128,
          upper |-> IF b = 237 THEN 159 ELSE 191, bits |-> b - 224]
  ELSE IF 240 <= b /\ b <= 244
    THEN [needed |-> 3, lower |-> IF b = 240 THEN 144 ELSE 128,
          upper |-> IF b = 244 THEN 143 ELSE 191, bits |-> b - 240]
  ELSE [needed |-> -1, lower |-> 128, upper |-> 191, bits |-> 0]

\* the continuation bytes bs[i+1 .. i+needed] of a lead byte at i are there and
\* in range
Utf8ContinuationsOk(bs, i, lead) ==
  /\ i + lead.needed <= Len(bs)
  /\ \A k \in 1 .. lead.needed :
       /\ (IF k = 1 THEN lead.lower ELSE 128) <= bs[i + k]
       /\ bs[i + k] <= (IF k = 1 THEN lead.upper ELSE 191)

RECURSIVE Utf8CodePoint(_, _, _, _)
Utf8CodePoint(bs, i, k, acc) ==
  IF k = 0 THEN acc ELSE Utf8CodePoint(bs, i + 1, k - 1, acc * 64 + (bs[i + 1] - 128))

IsContinuation(b) == 128 <= b /\ b <= 191

\* the positions of the bytes that start a character
Utf8Leads(bs) == { i \in 1 .. Len(bs) : ~IsContinuation(bs[i]) }

\* the decoder meets no error: the first byte starts a character, and every
\* byte that starts one is a lead byte followed by just the continuation bytes
\* it needs
Utf8WellFormed(bs) ==
  /\ bs # <<>> => ~IsContinuation(bs[1])
  /\ \A i \in Utf8Leads(bs) :
       LET lead == Utf8Lead(bs[i])
       IN  /\ lead.needed >= 0
           /\ Utf8ContinuationsOk(bs, i, lead)
           /\ i + lead.needed + 1 <= Len(bs) => ~IsContinuation(bs[i + lead.needed + 1])

\* new TextDecoder("utf-8", {fatal: true}).decode, before the byte order mark
\* is dealt with: [ok, val], val the characters in the order of their lead bytes
Utf8DecodeFatal(bs) ==
  IF ~Utf8WellFormed(bs) THEN [ok |-> FALSE, val |-> <<>>]
  ELSE LET leads == Utf8Leads(bs)
           rank == [i \in leads |-> Cardinality({ j \in leads : j <= i })]
       IN  [ok |-> TRUE,
            val |-> [k \in 1 .. Cardinality(leads) |->
                      LET i == CHOOSE i \in leads : rank[i] = k
                          lead == Utf8Lead(bs[i])
                      IN  Utf8CodePoint(bs, i, lead.needed, lead.bits)]]

BOM == 65279

\* the decoder is made without ignoreBOM, so a leading U+FEFF is dropped
Utf8StripBOM(d) ==
  IF d.ok /\ d.val # <<>> /\ Head(d.val) = BOM THEN [ok |-> TRUE, val |-> Tail(d.val)]
  ELSE d

\* Utf8.decode
Utf8Decode(bs) == Utf8StripBOM(Utf8DecodeFatal(bs))

\* Utf8.isValid
Utf8IsValid(bs) == (\A k \in 1 .. Len(bs) : bs[k] \in 0 .. 255) /\ Utf8Decode(bs).ok

\* Effect.sync around the decoder: what the decoder throws is not caught by
\* catchAll and ends the effect with that error
Utf8DecodeEffect(bs, p) ==
  With(Utf8Decode(bs), LAMBDA d : IF d.ok THEN Ok(d.val, p) ELSE Fail("Error", p))

decodeStringInternal(bs, p) ==
  Bind(decodeDefHead(bs, p), LAMBDA h :
    IF h.val.m # 3 THEN Fail("DecodeError", h.pos)
    ELSE Bind(shiftMany(bs, h.pos, BigToNat(h.val.n)), LAMBDA c :
           Utf8DecodeEffect(c.val, c.pos)))

\* the largest slice of at most maxChunkLength bytes from offset i (0-based)
\* that Utf8.isValid accepts
RECURSIVE LargestValidChunk(_, _, _)
LargestValidChunk(bs, i, maxChunkLength) ==
  LET to == IF i + maxChunkLength < Len(bs) THEN i + maxChunkLength ELSE Len(bs)
      chunk == SubSeq(bs, i + 1, to)
  IN  IF Utf8IsValid(chunk) THEN chunk ELSE LargestValidChunk(bs, i, maxChunkLength - 1)

----------------------------------------------------------------------------
(* A JavaScript number is a record [neg, mag, frac]: the sign, the whole     *)
(* part of the magnitude (as a bigint magnitude) and the number of quarters  *)
(* of its fractional part; Number(bigint) is exact below 2^53.               *)

NumOf(neg, mag, frac) ==
  [neg |-> neg /\ (mag # <<>> \/ frac # 0), mag |-> mag, frac |-> frac]

\* Number(v) of a bigint v
Number(v) == NumOf(v.neg, v.mag, 0)

----------------------------------------------------------------------------
(* lists *)

\* A decoder handed to a container decoder is named by a record: [kind |-> "int"],
\* "bytes", "bool", "null" are the codec's own decoders; [kind |-> "field", fd |-> f]
\* is the closure decodeConstr hands to decodeList for its field decoders f, where
\* f is [array |-> TRUE, decs |-> <<d1, ..., dk>>] or [array |-> FALSE, dec |-> d];
\* [kind |-> "tupleItem", itemDecoders |-> ds, optionalDecoders |-> os] is the
\* closure decodeTuple hands to decodeList.

isIndefList(bs, p) == Bind(peekOne(bs, p), LAMBDA r : Ok(r.val = 4 * 32 + 31, p))

isList(bs, p) == Bind(peekMajorType(bs, p), LAMBDA r : Ok(r.val = 4, p))

isTuple(bs, p) == isList(bs, p)

isMap(bs, p) == Bind(peekMajorType(bs, p), LAMBDA r : Ok(r.val = 5, p))

isObject(bs, p) == isMap(bs, p)

RECURSIVE decodeList(_, _, _)
RECURSIVE decodeListIndefLoop(_, _, _, _, _)
RECURSIVE decodeListIndefLoopStuck(_, _, _, _)
RECURSIVE decodeListDefLoop(_, _, _, _, _, _)
RECURSIVE ApplyDecoder(_, _, _, _)
RECURSIVE decodeString(_, _)
RECURSIVE decodeObjectField(_, _, _, _)

\* the names every object literal inherits from Object.prototype, as strings;
\* "__proto__" is the prototype itself and "constructor" is Object (there are
\* more: toString, valueOf, hasOwnProperty, ...)
PROTO_KEY == <<95, 95, 112, 114, 111, 116, 111, 95, 95>>

CONSTRUCTOR_KEY == <<99, 111, 110, 115, 116, 114, 117, 99, 116, 111, 114>>

ObjectPrototypeKeys == { PROTO_KEY, CONSTRUCTOR_KEY }

\* the decimal digits of n, as characters
RECURSIVE DecimalDigits(_)
DecimalDigits(n) ==
  IF n < 10 THEN <<48 + n>> ELSE Append(DecimalDigits(n \div 10), 48 + (n % 10))

\* the property name of a whole number x (below 10^21, where JS still writes
\* all the digits)
NumberToString(x) ==
  (IF x.neg THEN <<45>> ELSE <<>>) \o DecimalDigits(BigToNat(x.mag))

\* fieldDecoders[key]: an own property, else what Object.prototype has under
\* that name, else undefined. fieldDecoders is the function from its own
\* property names to their decoders; key is a property name (a string).
GetProperty(fieldDecoders, key) ==
  IF key \in DOMAIN fieldDecoders THEN [found |-> "own", dec |-> fieldDecoders[key]]
  ELSE IF key \in ObjectPrototypeKeys THEN [found |-> "inherited", dec |-> [kind |-> "null"]]
  ELSE [found |-> "undefined", dec |-> [kind |-> "null"]]

\* itemDecoder(stream, i)
ApplyDecoder(d, bs, p, i) ==
  IF d.kind = "int" THEN decodeInt(bs, p)
  ELSE IF d.kind = "bytes" THEN decodeBytes(bs, p)
  ELSE IF d.kind = "bool" THEN decodeBool(bs, p)
  ELSE IF d.kind = "null" THEN decodeNull(bs, p)
  ELSE IF d.kind = "string" THEN decodeString(bs, p)
  ELSE IF d.kind = "stringInternal" THEN decodeStringInternal(bs, p)
  ELSE IF d.kind = "succeedNull" THEN Ok("null", p) \* () => Effect.succeed(null)
  ELSE IF d.kind = "indexed" THEN \* (stream, i) => decodeInt(stream) paired with i
    Bind(decodeInt(bs, p), LAMBDA v : Ok([i |-> i, v |-> v.val], v.pos))
  ELSE IF d.kind = "objectIKey" THEN \* the value decoder of decodeObjectIKey
    Bind(decodeInt(bs, p), LAMBDA key :
      decodeObjectField(GetProperty(d.fieldDecoders, NumberToString(Number(key.val))),
                        NumberToString(Number(key.val)), bs, key.pos))
  ELSE IF d.kind = "objectSKey" THEN \* the value decoder of decodeObjectSKey
    Bind(decodeString(bs, p), LAMBDA key :
      decodeObjectField(GetProperty(d.fieldDecoders, key.val), key.val, bs, key.pos))
  ELSE IF d.kind = "tupleItem" THEN \* the closure of decodeTuple
    IF i + 1 <= Len(d.itemDecoders) THEN ApplyDecoder(d.itemDecoders[i + 1], bs, p, i)
    ELSE IF i + 1 - Len(d.itemDecoders) <= Len(d.optionalDecoders)
      THEN ApplyDecoder(d.optionalDecoders[i + 1 - Len(d.itemDecoders)], bs, p, i)
    ELSE Fail("DecodeError", p)
  ELSE \* "field": the closure of decodeConstr
    IF d.fd.array THEN
      IF i + 1 > Len(d.fd.decs) THEN Fail("DecodeError", p)
      ELSE ApplyDecoder(d.fd.decs[i + 1], bs, p, i)
    ELSE ApplyDecoder(d.fd.dec, bs, p, i)

decodeListIndefLoop(d, bs, p, i, res) ==
  Bind(peekOne(bs, p), LAMBDA pk :
    IF pk.val # 255 THEN
      Bind(ApplyDecoder(d, bs, p, i), LAMBDA item :
        decodeListIndefLoop(d, bs, item.pos, i + 1, Append(res, item.val)))
    ELSE
      Bind(shiftOne(bs, p), LAMBDA last :
        IF last.val # 255 THEN Fail("DecodeError", last.pos) ELSE Ok(res, last.pos)))

decodeListDefLoop(d, bs, p, i, n, res) ==
  IF i < n THEN
    Bind(ApplyDecoder(d, bs, p, i), LAMBDA item :
      decodeListDefLoop(d, bs, item.pos, i + 1, n, Append(res, item.val)))
  ELSE Ok(res, p)

\* decodeList whose indefinite loop leaves out i++
decodeListIndefLoopStuck(d, bs, p, res) ==
  Bind(peekOne(bs, p), LAMBDA pk :
    IF pk.val # 255 THEN
      Bind(ApplyDecoder(d, bs, p, 0), LAMBDA item :
        decodeListIndefLoopStuck(d, bs, item.pos, Append(res, item.val)))
    ELSE
      Bind(shiftOne(bs, p), LAMBDA last :
        IF last.val # 255 THEN Fail("DecodeError", last.pos) ELSE Ok(res, last.pos)))

decodeListIndexStuck(d, bs, p) ==
  Bind(isIndefList(bs, p), LAMBDA indef :
    IF indef.val THEN
      Bind(shiftOne(bs, p), LAMBDA s : decodeListIndefLoopStuck(d, bs, s.pos, <<>>))
    ELSE
      Bind(decodeDefHead(bs, p), LAMBDA h :
        IF h.val.m # 4 THEN Fail("DecodeError", h.pos)
        ELSE decodeListDefLoop(d, bs, h.pos, 0, BigToNat(h.val.n), <<>>)))

decodeList(d, bs, p) ==
  Bind(isIndefList(bs, p), LAMBDA indef :
    IF indef.val THEN
      Bind(shiftOne(bs, p), LAMBDA s : decodeListIndefLoop(d, bs, s.pos, 0, <<>>))
    ELSE
      Bind(decodeDefHead(bs, p), LAMBDA h :
        IF h.val.m # 4 THEN Fail("DecodeError", h.pos)
        ELSE decodeListDefLoop(d, bs, h.pos, 0, BigToNat(h.val.n), <<>>)))

RECURSIVE encodeListInternal(_)
encodeListInternal(list) ==
  IF list = <<>> THEN <<>> ELSE Head(list) \o encodeListInternal(Tail(list))

INDEF_LIST_END == <<255>>

encodeIndefListStart == encodeIndefHead(4)

encodeIndefList(list) ==
  EncCat(EncCat(encodeIndefListStart, EncOk(encodeListInternal(list))),
         EncOk(INDEF_LIST_END))

encodeDefListStart(n) == encodeDefHead(4, n)

encodeDefList(items) ==
  EncCat(encodeDefListStart(IntOfNat(Len(items))), EncOk(encodeListInternal(items)))

\* encodeList "optimised" to the definite form for every list
encodeListAlwaysDef(items) == encodeDefList(items)

encodeList(items) ==
  IF Len(items) > 0 THEN encodeIndefList(items) ELSE encodeDefList(items)

\* checkDone() that sets done at the break byte and leaves the byte unread
checkDoneLeavesBreak(cl, bs, p) ==
  IF cl.indef THEN
    Bind(peekOne(bs, p), LAMBDA pk : Ok(cl.done \/ pk.val = 255, p))
  ELSE Ok(cl.done \/ cl.i >= cl.n, p)

\* checkDone() of the closure cl, run with the cursor at p: val is the new `done`.
\* The indefinite form looks for the break byte, the definite form compares i
\* with the declared length and cannot fail.
checkDone(cl, bs, p) ==
  IF cl.indef THEN
    Bind(peekOne(bs, p), LAMBDA pk :
      IF pk.val = 255 THEN Bind(shiftOne(bs, p), LAMBDA s : Ok(TRUE, s.pos))
      ELSE Ok(cl.done, p))
  ELSE Ok(cl.done \/ cl.i >= cl.n, p)

\* The end of decodeListLazy: `yield* checkDone()` on the fresh variables cl
\* with the cursor at q, then `return decodeItem`.  r is the effect's result,
\* closure the variables i, done and checkDone that decodeItem has captured
\* (NoClosure when the effect failed).
returnDecodeItem(cl, bs, q) ==
  With(checkDone(cl, bs, q), LAMBDA cd :
    IF cd.ok THEN [r |-> Ok("decodeItem", cd.pos), closure |-> [cl EXCEPT !.done = cd.val]]
    ELSE [r |-> cd, closure |-> NoClosure])

\* the body shared by decodeListLazy and decodeListLazyOption
decodeListLazyInternal(variant, bs, p) ==
  With(isIndefList(bs, p), LAMBDA indef :
    IF ~indef.ok THEN [r |-> indef, closure |-> NoClosure]
    ELSE IF indef.val THEN
      With(shiftOne(bs, p), LAMBDA s :
        IF ~s.ok THEN [r |-> s, closure |-> NoClosure]
        ELSE returnDecodeItem([variant |-> variant, indef |-> TRUE, n |-> 0, i |-> 0,
                               done |-> FALSE], bs, s.pos))
    ELSE
      With(decodeDefHead(bs, p), LAMBDA h :
        IF ~h.ok THEN [r |-> h, closure |-> NoClosure]
        ELSE IF h.val.m # 4
          THEN [r |-> Fail("DecodeError", h.pos), closure |-> NoClosure]
        ELSE returnDecodeItem([variant |-> variant, indef |-> FALSE,
                               n |-> BigToNat(h.val.n), i |-> 0, done |-> FALSE],
                              bs, h.pos)))

decodeListLazy(bs, p) == decodeListLazyInternal("fail", bs, p)

decodeListLazyOption(bs, p) == decodeListLazyInternal("option", bs, p)

\* decodeItem without its `if (done)` test
decodeItemWithoutDoneTest(cl, d, bs, p) ==
  With(ApplyDecoder(d, bs, p, cl.i), LAMBDA res :
    IF ~res.ok THEN [r |-> res, closure |-> cl]
    ELSE With(checkDone([cl EXCEPT !.i = cl.i + 1], bs, res.pos), LAMBDA cd :
           IF cd.ok THEN [r |-> Ok(res.val, cd.pos),
                          closure |-> [cl EXCEPT !.i = cl.i + 1, !.done = cd.val]]
           ELSE [r |-> cd, closure |-> [cl EXCEPT !.i = cl.i + 1]]))

\* decodeItem(itemDecoder) of the closure cl with the cursor at p: the result and
\* the closure's variables afterwards.  When done, decodeListLazy's closure fails
\* with DecodeError "end-of-list" and decodeListLazyOption's returns undefined.
decodeItem(cl, d, bs, p) ==
  IF cl.done THEN
    [r |-> IF cl.variant = "option" THEN Ok("undefined", p) ELSE Fail("DecodeError", p),
     closure |-> cl]
  ELSE
    With(ApplyDecoder(d, bs, p, cl.i), LAMBDA res :
      IF ~res.ok THEN [r |-> res, closure |-> cl]
      ELSE With(checkDone([cl EXCEPT !.i = cl.i + 1], bs, res.pos), LAMBDA cd :
             IF cd.ok THEN [r |-> Ok(res.val, cd.pos),
                            closure |-> [cl EXCEPT !.i = cl.i + 1, !.done = cd.val]]
             ELSE [r |-> cd, closure |-> [cl EXCEPT !.i = cl.i + 1]]))

isDefList(bs, p) ==
  Bind(peekMajorType(bs, p), LAMBDA m :
    IF m.val # 4 THEN Ok(FALSE, p)
    ELSE Bind(peekOne(bs, p), LAMBDA b : Ok(b.val # 4 * 32 + 31, p)))

\* result += s for every item, in order
RECURSIVE ConcatStrings(_)
ConcatStrings(strs) ==
  IF strs = <<>> THEN <<>> ELSE Head(strs) \o ConcatStrings(Tail(strs))

decodeString(bs, p) ==
  Bind(isDefList(bs, p), LAMBDA def :
    IF def.val THEN
      Bind(decodeList([kind |-> "stringInternal"], bs, p), LAMBDA l :
        Ok(ConcatStrings(l.val), l.pos))
    ELSE decodeStringInternal(bs, p))

\* the chunks of bs from offset i (0-based) on, each under its head
RECURSIVE encodeStringChunks(_, _, _)
encodeStringChunks(bs, i, chunks) ==
  IF i < Len(bs) THEN
    LET chunk == LargestValidChunk(bs, i, 64)
    IN  encodeStringChunks(bs, i + Len(chunk),
          Append(chunks, encodeDefHead(3, IntOfNat(Len(chunk))).bytes \o chunk))
  ELSE chunks

encodeString(str, split) ==
  LET bs == Utf8Encode(str)
  IN  IF split /\ Len(bs) > 64 THEN encodeDefList(encodeStringChunks(bs, 0, <<>>))
      ELSE EncCat(encodeDefHead(3, IntOfNat(Len(bs))), EncOk(bs))

----------------------------------------------------------------------------
(* constructors *)

\* BigInt(x) of a whole number x
BigIntOf(x) == IntOf(x.neg, x.mag)

\* x - k of a whole number x >= k >= 0
NumMinus(x, k) == BigOfNat(BigToNat(x.mag) - k)

\* decodeConstrTag that forgets the + 7 of the middle range
decodeConstrTagNoBias(bs, p) ==
  Bind(decodeDefHead(bs, p), LAMBDA h :
    IF h.val.m # 6 THEN Fail("DecodeError", h.pos)
    ELSE IF BigLT(h.val.n, BigOfNat(102)) THEN Fail("DecodeError", h.pos)
    ELSE IF h.val.n = BigOfNat(102) THEN
      Bind(decodeDefHead(bs, h.pos), LAMBDA c :
        IF c.val.m # 4 \/ c.val.n # BigOfNat(2) THEN Fail("DecodeError", c.pos)
        ELSE Bind(decodeInt(bs, c.pos), LAMBDA t : Ok(Number(t.val), t.pos)))
    ELSE IF BigLT(h.val.n, BigOfNat(121)) THEN Fail("DecodeError", h.pos)
    ELSE IF BigLE(h.val.n, BigOfNat(127))
      THEN Ok(NumOf(FALSE, BigOfNat(BigToNat(h.val.n) - 121), 0), h.pos)
    ELSE IF BigLT(h.val.n, BigOfNat(1280)) THEN Fail("DecodeError", h.pos)
    ELSE IF BigLE(h.val.n, BigOfNat(1400))
      THEN Ok(NumOf(FALSE, BigOfNat(BigToNat(h.val.n) - 1280), 0), h.pos)
    ELSE Fail("DecodeError", h.pos))

\* decodeConstrTag that takes the argument 128 into the low range
decodeConstrTagWideLow(bs, p) ==
  Bind(decodeDefHead(bs, p), LAMBDA h :
    IF h.val.m # 6 THEN Fail("DecodeError", h.pos)
    ELSE IF BigLT(h.val.n, BigOfNat(102)) THEN Fail("DecodeError", h.pos)
    ELSE IF h.val.n = BigOfNat(102) THEN
      Bind(decodeDefHead(bs, h.pos), LAMBDA c :
        IF c.val.m # 4 \/ c.val.n # BigOfNat(2) THEN Fail("DecodeError", c.pos)
        ELSE Bind(decodeInt(bs, c.pos), LAMBDA t : Ok(Number(t.val), t.pos)))
    ELSE IF BigLT(h.val.n, BigOfNat(121)) THEN Fail("DecodeError", h.pos)
    ELSE IF BigLE(h.val.n, BigOfNat(128))
      THEN Ok(NumOf(FALSE, BigOfNat(BigToNat(h.val.n) - 121), 0), h.pos)
    ELSE IF BigLT(h.val.n, BigOfNat(1280)) THEN Fail("DecodeError", h.pos)
    ELSE IF BigLE(h.val.n, BigOfNat(1400))
      THEN Ok(NumOf(FALSE, BigOfNat(BigToNat(h.val.n) - 1280 + 7), 0), h.pos)
    ELSE Fail("DecodeError", h.pos))

decodeConstrTag(bs, p) ==
  Bind(decodeDefHead(bs, p), LAMBDA h :
    IF h.val.m # 6 THEN Fail("DecodeError", h.pos)
    ELSE IF BigLT(h.val.n, BigOfNat(102)) THEN Fail("DecodeError", h.pos)
    ELSE IF h.val.n = BigOfNat(102) THEN
      Bind(decodeDefHead(bs, h.pos), LAMBDA c :
        IF c.val.m # 4 \/ c.val.n # BigOfNat(2) THEN Fail("DecodeError", c.pos)
        ELSE Bind(decodeInt(bs, c.pos), LAMBDA t : Ok(Number(t.val), t.pos)))
    ELSE IF BigLT(h.val.n, BigOfNat(121)) THEN Fail("DecodeError", h.pos)
    ELSE IF BigLE(h.val.n, BigOfNat(127))
      THEN Ok(NumOf(FALSE, BigOfNat(BigToNat(h.val.n) - 121), 0), h.pos)
    ELSE IF BigLT(h.val.n, BigOfNat(1280)) THEN Fail("DecodeError", h.pos)
    ELSE IF BigLE(h.val.n, BigOfNat(1400))
      THEN Ok(NumOf(FALSE, BigOfNat(BigToNat(h.val.n) - 1280 + 7), 0), h.pos)
    ELSE Fail("DecodeError", h.pos))

\* val: <<tag, fields>>
decodeConstr(fieldDecoder, bs, p) ==
  Bind(decodeConstrTag(bs, p), LAMBDA tag :
    Bind(decodeList([kind |-> "field", fd |-> fieldDecoder], bs, tag.pos), LAMBDA res :
      IF fieldDecoder.array /\ Len(res.val) < Len(fieldDecoder.decs)
        THEN Fail("DecodeError", res.pos)
      ELSE Ok(<<tag.val, res.val>>, res.pos)))

\* Encoding.encodeHex / Encoding.decodeHex of effect: a hex string is kept as
\* the sequence of the values 0..15 of its digits, two for each byte
encodeHex(bs) ==
  [i \in 1 .. 2 * Len(bs) |->
     IF i % 2 = 1 THEN bs[(i + 1) \div 2] \div 16 ELSE bs[i \div 2] % 16]

decodeHex(str) == [i \in 1 .. Len(str) \div 2 |-> 16 * str[2 * i - 1] + str[2 * i]]

\* A BytesLike argument is [rep, data, pos]: rep is "array", "uint8array" or
\* "hex" with data the bytes or the hex digits, or "stream" with data the
\* stream's bytes and pos its position.
toUint8Array(arg) == IF arg.rep = "hex" THEN decodeHex(arg.data) ELSE arg.data

\* an argument made of the bytes bs: the bytes as they are, their hex
\* string, or a stream over them
BytesLike(rep, bs) ==
  [rep |-> rep, data |-> IF rep = "hex" THEN encodeHex(bs) ELSE bs, pos |-> 0]

\* Bytes.makeStream(arg): a Stream is returned as it is (same), everything else
\* gives a new StreamImpl at position 0
makeStream(arg) ==
  [bytes |-> toUint8Array(arg),
   pos |-> IF arg.rep = "stream" THEN arg.pos ELSE 0,
   same |-> arg.rep = "stream"]

\* decodeConstrLazy(bytes): the tag is read from makeStream(bytes), and then
\* decodeListLazy is given bytes, not that stream, so it calls makeStream(bytes)
\* again.  cursors holds the position of every stream in use afterwards: the
\* argument itself, or the stream of the tag and then the stream decodeListLazy
\* made, which is the one the closure has captured.
decodeConstrLazy(arg) ==
  With(makeStream(arg), LAMBDA stream :
    With(decodeConstrTag(stream.bytes, stream.pos), LAMBDA tag :
      IF ~tag.ok THEN [r |-> tag, closure |-> NoClosure, cursors |-> <<tag.pos>>]
      ELSE
        With(decodeListLazy(stream.bytes, IF stream.same THEN tag.pos ELSE 0),
             LAMBDA lazy :
          [r |-> IF lazy.r.ok THEN Ok(tag.val, lazy.r.pos) ELSE lazy.r,
           closure |-> lazy.closure,
           cursors |-> IF stream.same THEN <<lazy.r.pos>>
                       ELSE <<tag.pos, lazy.r.pos>>])))

\* decodeTagged whose tag is read from a copy of the stream, so that the
\* closure still has the tag in front of it
decodeTaggedKeepsFirstItem(arg) ==
  With(makeStream(arg), LAMBDA stream :
    With(isList(stream.bytes, stream.pos), LAMBDA l :
      IF ~l.ok THEN [r |-> l, closure |-> NoClosure, cursors |-> <<l.pos>>]
      ELSE IF l.val THEN
        With(decodeListLazy(stream.bytes, stream.pos), LAMBDA lazy :
          IF ~lazy.r.ok
            THEN [r |-> lazy.r, closure |-> NoClosure, cursors |-> <<lazy.r.pos>>]
          ELSE
            With(decodeItem(lazy.closure, [kind |-> "int"], stream.bytes, lazy.r.pos),
                 LAMBDA tag :
              IF ~tag.r.ok
                THEN [r |-> tag.r, closure |-> NoClosure, cursors |-> <<tag.r.pos>>]
              ELSE [r |-> Ok(Number(tag.r.val), lazy.r.pos), closure |-> lazy.closure,
                    cursors |-> <<lazy.r.pos>>]))
      ELSE decodeConstrLazy([rep |-> "stream", data |-> stream.bytes,
                             pos |-> stream.pos])))

\* decodeTagged(bytes): everything runs on the one stream makeStream(bytes); a
\* list gives its first item, read by decodeInt, as the tag and the closure of
\* decodeListLazy for the rest; anything else goes to decodeConstrLazy(stream)
decodeTagged(arg) ==
  With(makeStream(arg), LAMBDA stream :
    With(isList(stream.bytes, stream.pos), LAMBDA l :
      IF ~l.ok THEN [r |-> l, closure |-> NoClosure, cursors |-> <<l.pos>>]
      ELSE IF l.val THEN
        With(decodeListLazy(stream.bytes, stream.pos), LAMBDA lazy :
          IF ~lazy.r.ok
            THEN [r |-> lazy.r, closure |-> NoClosure, cursors |-> <<lazy.r.pos>>]
          ELSE
            With(decodeItem(lazy.closure, [kind |-> "int"], stream.bytes, lazy.r.pos),
                 LAMBDA tag :
              IF ~tag.r.ok
                THEN [r |-> tag.r, closure |-> NoClosure, cursors |-> <<tag.r.pos>>]
              ELSE [r |-> Ok(Number(tag.r.val), tag.r.pos), closure |-> tag.closure,
                    cursors |-> <<tag.r.pos>>]))
      ELSE decodeConstrLazy([rep |-> "stream", data |-> stream.bytes,
                             pos |-> stream.pos])))

\* encodeConstrTag that forgets the - 7 of the middle range
encodeConstrTagNoShift(tag) ==
  IF tag.neg \/ tag.frac # 0 THEN EncFail
  ELSE IF BigLE(tag.mag, BigOfNat(6))
    THEN encodeDefHead(6, IntOf(FALSE, BigAdd(BigOfNat(121), tag.mag)))
  ELSE IF BigLE(BigOfNat(7), tag.mag) /\ BigLE(tag.mag, BigOfNat(127))
    THEN encodeDefHead(6, IntOf(FALSE, BigAdd(BigOfNat(1280), tag.mag)))
  ELSE EncCat(EncCat(encodeDefHead(6, IntOfNat(102)), encodeDefHead(4, IntOfNat(2))),
              encodeInt(BigIntOf(tag)))

encodeConstrTag(tag) ==
  IF tag.neg \/ tag.frac # 0 THEN EncFail
  ELSE IF BigLE(tag.mag, BigOfNat(6))
    THEN encodeDefHead(6, IntOf(FALSE, BigAdd(BigOfNat(121), tag.mag)))
  ELSE IF BigLE(BigOfNat(7), tag.mag) /\ BigLE(tag.mag, BigOfNat(127))
    THEN encodeDefHead(6, IntOf(FALSE, BigAdd(BigOfNat(1280), NumMinus(tag, 7))))
  ELSE EncCat(EncCat(encodeDefHead(6, IntOfNat(102)), encodeDefHead(4, IntOfNat(2))),
              encodeInt(BigIntOf(tag)))

encodeConstr(tag, fields) == EncCat(encodeConstrTag(tag), encodeList(fields))

\* isConstr that decodes the head on the cursor itself instead of on a copy
isConstrNoCopy(bs, p) ==
  With(decodeDefHead(bs, p), LAMBDA h :
    IF h.ok THEN
      IF h.val.m = 6
        THEN Ok(h.val.n = BigOfNat(102)
                \/ (BigLE(BigOfNat(121), h.val.n) /\ BigLE(h.val.n, BigOfNat(127)))
                \/ (BigLE(BigOfNat(1280), h.val.n) /\ BigLE(h.val.n, BigOfNat(1400))),
                h.pos)
      ELSE Ok(FALSE, h.pos)
    ELSE IF h.err = "DecodeError" THEN Ok(FALSE, h.pos)
    ELSE Fail(h.err, h.pos))

\* isConstr without its Effect.catchTag: a DecodeError of the head is the answer
isConstrNoCatch(bs, p) ==
  With(decodeDefHead(bs, copy(bs, p)), LAMBDA h :
    IF h.ok THEN
      IF h.val.m = 6
        THEN Ok(h.val.n = BigOfNat(102)
                \/ (BigLE(BigOfNat(121), h.val.n) /\ BigLE(h.val.n, BigOfNat(127)))
                \/ (BigLE(BigOfNat(1280), h.val.n) /\ BigLE(h.val.n, BigOfNat(1400))),
                p)
      ELSE Ok(FALSE, p)
    ELSE Fail(h.err, p))

\* the head is decoded on a copy of the cursor; Effect.catchTag turns a
\* DecodeError into the answer false
isConstr(bs, p) ==
  With(decodeDefHead(bs, copy(bs, p)), LAMBDA h :
    IF h.ok THEN
      IF h.val.m = 6
        THEN Ok(h.val.n = BigOfNat(102)
                \/ (BigLE(BigOfNat(121), h.val.n) /\ BigLE(h.val.n, BigOfNat(127)))
                \/ (BigLE(BigOfNat(1280), h.val.n) /\ BigLE(h.val.n, BigOfNat(1400))),
                p)
      ELSE Ok(FALSE, p)
    ELSE IF h.err = "DecodeError" THEN Ok(FALSE, p)
    ELSE Fail(h.err, p))

----------------------------------------------------------------------------
(* The cursor machine: a buffer, the cursor made over it by makeStream and   *)
(* the most recent copy() of a cursor (a later copy() takes its place).      *)
(* call is the last operation: its name, the cursor it was called on, its    *)
(* argument n and the positions of the cursors before it; ret is what it     *)
(* returned.                                                                 *)

MaxItems == 2

\* the items buffers are made of: constr 0 [] (a tag head, then a list head),
\* the map {0: false}, the byte string h'f6' (its content is a null byte), and
\* the first byte of a head whose argument byte may be cut off by the end
SampleItems ==
  { <<6 * 32 + 24, 121, 4 * 32>>,
    <<5 * 32 + 1, 0, FALSE_BYTE>>,
    <<2 * 32 + 1, NULL_BYTE>>,
    <<24>> }

RECURSIVE ItemSeqs(_)
ItemSeqs(k) ==
  IF k = 0 THEN { <<>> }
  ELSE LET shorter == ItemSeqs(k - 1)
       IN  shorter \cup { b \o i : b \in shorter, i \in SampleItems }

Buffers == ItemSeqs(MaxItems)

NoInput == [kind |-> "none"]

InitStream ==
  /\ bytes \in Buffers
  /\ cursors = <<0>>
  /\ call = [op |-> "makeStream", cur |-> 1, n |-> 0, before |-> <<0>>]
  /\ ret = Ok(<<>>, 0)
  /\ input = NoInput
  /\ wire = EncOk(<<>>)
  /\ phase = "stream"
  /\ closure = NoClosure

Cursor == 1 .. Len(cursors)

\* the operation op ran on cursor c with argument n and returned r
Step(op, c, n, r) ==
  /\ cursors' = [cursors EXCEPT ![c] = r.pos]
  /\ call' = [op |-> op, cur |-> c, n |-> n, before |-> cursors]
  /\ ret' = r
  /\ UNCHANGED <<bytes, input, wire, phase, closure>>

\* the counts given to peekMany and shiftMany on cursor c: negative, small, all
\* that remains and one more than remains
Counts(c) ==
  { -1, 0, 1, 2, Len(bytes) - cursors[c], Len(bytes) - cursors[c] + 1 }

PeekOne == \E c \in Cursor : Step("peekOne", c, 1, peekOne(bytes, cursors[c]))

PeekMany ==
  \E c \in Cursor : \E n \in Counts(c) :
    Step("peekMany", c, n, peekMany(bytes, cursors[c], n))

PeekRemaining ==
  \E c \in Cursor : Step("peekRemaining", c, 0, peekRemaining(bytes, cursors[c]))

ShiftOne == \E c \in Cursor : Step("shiftOne", c, 1, shiftOne(bytes, cursors[c]))

ShiftMany ==
  \E c \in Cursor : \E n \in Counts(c) :
    Step("shiftMany", c, n, shiftMany(bytes, cursors[c], n))

ShiftRemaining ==
  \E c \in Cursor : Step("shiftRemaining", c, 0, shiftRemaining(bytes, cursors[c]))

IsAtEnd ==
  \E c \in Cursor :
    Step("isAtEnd", c, 0, Ok(isAtEnd(bytes, cursors[c]), cursors[c]))

Copy ==
  \E c \in Cursor :
    /\ cursors' = <<cursors[1], copy(bytes, cursors[c])>>
    /\ call' = [op |-> "copy", cur |-> c, n |-> 0, before |-> cursors]
    /\ ret' = Ok(<<>>, cursors[c])
    /\ UNCHANGED <<bytes, input, wire, phase, closure>>

IsBool == \E c \in Cursor : Step("isBool", c, 0, isBool(bytes, cursors[c]))

IsBytes == \E c \in Cursor : Step("isBytes", c, 0, isBytes(bytes, cursors[c]))

IsConstr == \E c \in Cursor : Step("isConstr", c, 0, isConstr(bytes, cursors[c]))

IsInt == \E c \in Cursor : Step("isInt", c, 0, isInt(bytes, cursors[c]))

IsList == \E c \in Cursor : Step("isList", c, 0, isList(bytes, cursors[c]))

IsMap == \E c \in Cursor : Step("isMap", c, 0, isMap(bytes, cursors[c]))

IsNull == \E c \in Cursor : Step("isNull", c, 0, isNull(bytes, cursors[c]))

IsObject == \E c \in Cursor : Step("isObject", c, 0, isObject(bytes, cursors[c]))

IsString == \E c \in Cursor : Step("isString", c, 0, isString(bytes, cursors[c]))

IsTuple == \E c \in Cursor : Step("isTuple", c, 0, isTuple(bytes, cursors[c]))

Next ==
  \/ PeekOne
  \/ PeekMany
  \/ PeekRemaining
  \/ ShiftOne
  \/ ShiftMany
  \/ ShiftRemaining
  \/ IsAtEnd
  \/ Copy
  \/ IsBool
  \/ IsBytes
  \/ IsConstr
  \/ IsInt
  \/ IsList
  \/ IsMap
  \/ IsNull
  \/ IsObject
  \/ IsString
  \/ IsTuple

Spec == InitStream /\ [][Next]_vars

----------------------------------------------------------------------------
(* properties of the cursor machine *)

Probes ==
  { "isBool", "isBytes", "isConstr", "isInt", "isList", "isMap", "isNull",
    "isObject", "isString", "isTuple" }

Shifts == { "shiftOne", "shiftMany", "shiftRemaining" }

BoundedReads == { "peekOne", "peekMany", "shiftOne", "shiftMany" }

\* C8: an is-X probe leaves the position of the cursor it is given (and of every
\* other cursor) as it was, whether it answers true, answers false or fails.
C8_ProbesKeepPosition == call.op \in Probes => cursors = call.before

\* a probe answered true on a cursor that had moved off the start: here isConstr,
\* which decodes a whole head to answer
C8_WitnessTrue ==
  /\ call.op = "isConstr"
  /\ ret.ok
  /\ ret.val
  /\ cursors[call.cur] > 0

\* C9: every cursor stays within 0 .. length; an operation other than a shift
\* leaves every position as it was (copy adds a cursor and moves none); a shift
\* that succeeds moves its cursor forward by the number of bytes it returned
\* and moves no other cursor.
C9_PositionInvariant ==
  /\ \A c \in Cursor : 0 <= cursors[c] /\ cursors[c] <= Len(bytes)
  /\ (call.op \notin Shifts /\ call.op # "copy") => cursors = call.before
  /\ call.op = "copy" => cursors[1] = call.before[1]
  /\ (call.op \in Shifts /\ ret.ok) =>
       /\ cursors[call.cur] =
            call.before[call.cur] + (IF call.op = "shiftOne" THEN 1 ELSE Len(ret.val))
       /\ \A c \in Cursor : c # call.cur => cursors[c] = call.before[c]

\* a shiftMany of two or more bytes succeeded on one cursor while the other
\* cursor stands elsewhere
C9_WitnessShift ==
  /\ call.op = "shiftMany"
  /\ ret.ok
  /\ Len(ret.val) >= 2
  /\ Len(cursors) = 2
  /\ cursors[1] # cursors[2]

\* C10: a bounded read with n >= 0 (n = 1 for peekOne and shiftOne) fails exactly
\* when position + n > length, the failure is EndOfStream, and it leaves the
\* position as it was.
C10_EndOfStreamExactly ==
  (call.op \in BoundedReads /\ call.n >= 0) =>
    /\ ~ret.ok <=> call.before[call.cur] + call.n > Len(bytes)
    /\ ~ret.ok => ret.err = "EndOfStream"
    /\ ~ret.ok => cursors = call.before

\* a shiftMany failed in the middle of a buffer although bytes remained
C10_WitnessFailedShift ==
  /\ call.op = "shiftMany"
  /\ ret.err = "EndOfStream"
  /\ call.before[call.cur] > 0
  /\ call.before[call.cur] < Len(bytes)

----------------------------------------------------------------------------
(* The codec machines: an input is drawn, an encoder turns it into wire, a   *)
(* decoder reads wire back through a fresh cursor (makeStream of the bytes). *)

InitCodec ==
  /\ bytes = <<>>
  /\ cursors = <<0>>
  /\ call = [op |-> "none", cur |-> 1, n |-> 0, before |-> <<0>>]
  /\ ret = Ok(<<>>, 0)
  /\ wire = EncOk(<<>>)
  /\ phase = "start"
  /\ closure = NoClosure

EncodeStep(w) ==
  /\ phase = "start"
  /\ wire' = w
  /\ phase' = "encoded"
  /\ UNCHANGED <<bytes, cursors, call, ret, input, closure>>

DecodeStep(op, r) ==
  /\ phase = "encoded"
  /\ wire.ok
  /\ bytes' = wire.bytes
  /\ cursors' = <<r.pos>>
  /\ call' = [op |-> op, cur |-> 1, n |-> 0, before |-> <<0>>]
  /\ ret' = r
  /\ phase' = "decoded"
  /\ UNCHANGED <<input, wire, closure>>

MaxLimbs == 5

SmallMax == 300

\* limbs that put a value on either side of a byte and of a limb boundary
LimbSamples == { 0, 1, 255, 256, Base - 1 }

RECURSIVE LimbSeqs(_)
LimbSeqs(k) ==
  IF k = 0 THEN { <<>> }
  ELSE LET shorter == LimbSeqs(k - 1)
       IN  shorter \cup { Append(a, l) : a \in shorter, l \in LimbSamples }

\* magnitudes: every small one, and samples up to 2^(16 * MaxLimbs) - 1
Magnitudes ==
  { BigOfNat(k) : k \in 0 .. SmallMax } \cup { BigNorm(a) : a \in LimbSeqs(MaxLimbs) }

Ints == { IntOf(neg, mag) : neg \in BOOLEAN, mag \in Magnitudes }

(* integers: encodeInt, then decodeInt *)

InitInt == InitCodec /\ input \in { [kind |-> "int", v |-> v] : v \in Ints }

EncodeInt == EncodeStep(encodeInt(input.v))

DecodeInt == DecodeStep("decodeInt", decodeInt(wire.bytes, 0))

NextInt == EncodeInt \/ DecodeInt

SpecInt == InitInt /\ [][NextInt]_vars

(* heads: encodeDefHead *)

InitHead ==
  InitCodec /\ input \in { [kind |-> "head", m |-> m, n |-> n] :
                           m \in 0 .. 7, n \in Magnitudes }

EncodeDefHead == EncodeStep(encodeDefHead(input.m, IntOf(FALSE, input.n)))

DecodeDefHead == DecodeStep("decodeDefHead", decodeDefHead(wire.bytes, 0))

NextHead == EncodeDefHead \/ DecodeDefHead

SpecHead == InitHead /\ [][NextHead]_vars

----------------------------------------------------------------------------
(* properties of the integer codec and of encodeDefHead *)

\* the magnitude is below 2^64: at most four limbs
Below2Pow64(mag) == Len(mag) <= 4

\* the bytes of a definite byte string that fills w from position p to its end
\* (<<>> with ok FALSE when w holds no such string there)
DefBytesAt(w, p) ==
  IF p >= Len(w) \/ w[p + 1] \div 32 # 2 \/ w[p + 1] % 32 = 31
    THEN [ok |-> FALSE, val |-> <<>>]
  ELSE LET r == decodeBytes(w, p)
       IN  [ok |-> r.ok /\ r.pos = Len(w), val |-> r.val]

\* w is one head of major type m with argument mag, and nothing more
IsHeadOf(w, m, mag) ==
  LET h == decodeDefHead(w, 0)
  IN  h.ok /\ h.pos = Len(w) /\ h.val.m = m /\ h.val.n = mag

\* w is the tag head `tag` followed by the minimal big-endian bytes of mag
IsBignumOf(w, tag, mag) ==
  /\ Len(w) >= 1
  /\ w[1] = 6 * 32 + tag
  /\ LET b == DefBytesAt(w, 1)
     IN  /\ b.ok
         /\ Len(b.val) >= 1
         /\ b.val[1] # 0
         /\ BigEndianDecode(b.val).val = mag

\* C1: for every integer v of either sign, below or above 2^64 in magnitude,
\* encodeInt(v) succeeds and decodeInt of its bytes returns exactly v, having
\* read all of them.
C1_IntRoundtrip ==
  /\ phase = "encoded" => wire.ok
  /\ phase = "decoded" => ret.ok /\ ret.val = input.v /\ ret.pos = Len(wire.bytes)

\* a negative integer below -(2^64) came back from the wire
C1_WitnessBigNegative ==
  /\ phase = "decoded"
  /\ input.v.neg
  /\ Len(input.v.mag) >= 5
  /\ input.v.mag # TwoPow64
  /\ ret.ok

\* C6: encodeInt picks the wire form by range: 0 .. 2^64-1 is one major-type-0
\* head; 2^64 and above is tag 2 and the minimal big-endian byte string of n;
\* -1 down to -(2^64) is one major-type-1 head with argument -n-1; below
\* -(2^64) is tag 3 and the big-endian byte string of -n-1.
C6_IntWireForm ==
  phase = "encoded" =>
    LET v == input.v
        w == wire.bytes
    IN  /\ wire.ok
        /\ (~v.neg /\ Below2Pow64(v.mag)) => IsHeadOf(w, 0, v.mag)
        /\ (~v.neg /\ ~Below2Pow64(v.mag)) => IsBignumOf(w, 2, v.mag)
        /\ (v.neg /\ (Below2Pow64(v.mag) \/ v.mag = TwoPow64)) =>
             IsHeadOf(w, 1, BigDec(v.mag))
        /\ (v.neg /\ ~Below2Pow64(v.mag) /\ v.mag # TwoPow64) =>
             IsBignumOf(w, 3, BigDec(v.mag))

\* -(2^64), the last integer of the major-type-1 form, was encoded
C6_WitnessBoundary ==
  /\ phase = "encoded"
  /\ input.v.neg
  /\ input.v.mag = TwoPow64
  /\ Len(wire.bytes) = 9

\* the number of argument bytes the shortest head of n has, for 24 <= n < 2^64
HeadWidth(n) ==
  IF Len(n) <= 1 /\ n[1] <= 255 THEN 1
  ELSE IF Len(n) <= 1 THEN 2
  ELSE IF Len(n) <= 2 THEN 4
  ELSE 8

HeadCode(width) ==
  IF width = 1 THEN 24 ELSE IF width = 2 THEN 25 ELSE IF width = 4 THEN 26 ELSE 27

\* C7: encodeDefHead(m, n) is the one byte 32*m+n for n <= 23, otherwise the byte
\* 32*m+24/25/26/27 and n in exactly 1/2/4/8 big-endian bytes, the smallest
\* width that holds n; for n >= 2^64 it fails and gives no bytes.
C7_ShortestHead ==
  phase = "encoded" =>
    LET n == input.n
        m == input.m
        w == wire.bytes
    IN  IF ~Below2Pow64(n) THEN ~wire.ok /\ w = <<>>
        ELSE IF n = <<>> \/ (Len(n) = 1 /\ n[1] <= 23)
          THEN wire.ok /\ w = <<32 * m + (IF n = <<>> THEN 0 ELSE n[1])>>
        ELSE /\ wire.ok
             /\ Len(w) = 1 + HeadWidth(n)
             /\ w[1] = 32 * m + HeadCode(HeadWidth(n))
             /\ BigEndianDecode(SubSeq(w, 2, Len(w))).val = n

\* 2^32, the first argument that needs eight bytes, was encoded with zero
\* bytes in front
C7_WitnessEightBytes ==
  /\ phase = "encoded"
  /\ input.n = TwoPow32
  /\ input.m = 5
  /\ wire.bytes = <<5 * 32 + 27, 0, 0, 0, 1, 0, 0, 0, 0>>

----------------------------------------------------------------------------
(* lists: encodeList of items that are already encoded *)

MaxListLen == 3

\* encoded items of one, two and three bytes: 0, -1, 24, 256
ItemSamples == { <<0>>, <<32>>, <<24, 24>>, <<25, 1, 0>> }

RECURSIVE SeqsUpTo(_, _)
SeqsUpTo(S, k) ==
  IF k = 0 THEN { <<>> }
  ELSE LET shorter == SeqsUpTo(S, k - 1)
       IN  shorter \cup { Append(a, x) : a \in shorter, x \in S }

InitList ==
  InitCodec /\ input \in { [kind |-> "list", items |-> l] :
                           l \in SeqsUpTo(ItemSamples, MaxListLen) }

EncodeList == EncodeStep(encodeList(input.items))

DecodeList ==
  DecodeStep("decodeList", decodeList([kind |-> "int"], wire.bytes, 0))

NextList == EncodeList \/ DecodeList

SpecList == InitList /\ [][NextList]_vars

\* where item i of items starts in their concatenation (0-based offset)
RECURSIVE OffsetOf(_, _)
OffsetOf(items, i) ==
  IF i = 1 THEN 0 ELSE OffsetOf(items, i - 1) + Len(items[i - 1])

\* body is the items one after the other, in order, and nothing else
IsConcatOf(body, items) ==
  /\ Len(body) = OffsetOf(items, Len(items) + 1)
  /\ \A i \in 1 .. Len(items) :
       SubSeq(body, OffsetOf(items, i) + 1, OffsetOf(items, i) + Len(items[i]))
         = items[i]

\* C5: encodeList of the empty list is the single byte 0x80; encodeList of a
\* non-empty list is 0x9F, the items in order, then 0xFF.
C5_ListWireForm ==
  phase = "encoded" =>
    LET w == wire.bytes
    IN  /\ wire.ok
        /\ input.items = <<>> => w = <<128>>
        /\ input.items # <<>> =>
             /\ w[1] = 159
             /\ w[Len(w)] = 255
             /\ IsConcatOf(SubSeq(w, 2, Len(w) - 1), input.items)

\* a list of three items, not all alike, was encoded
C5_WitnessThreeItems ==
  /\ phase = "encoded"
  /\ Len(input.items) = 3
  /\ input.items[1] # input.items[3]
  /\ Len(wire.bytes) > 4

----------------------------------------------------------------------------
(* constructors: encodeConstr of a tag and integer fields, then decodeConstr *)

MaxFields == 2

\* tags on both sides of 6|7, of 127|128 and of each head width; 2^32 and
\* 2^48 - 1 are tags of which Number() is still exact
TagMagnitudes ==
  { BigOfNat(k) : k \in { 0, 1, 6, 7, 8, 23, 24, 127, 128, 255, 256, 1400, 5000,
                          Base - 1, Base } }
    \cup { TwoPow32, <<Base - 1, Base - 1, Base - 1>> }

\* whole tags, and tags with a fractional part of a quarter or a half
Tags ==
  { NumOf(neg, mag, frac) : neg \in BOOLEAN, mag \in TagMagnitudes, frac \in 0 .. 2 }

FieldSamples ==
  { IntOfNat(0), IntOfNat(24), IntOf(TRUE, <<1>>), IntOf(FALSE, TwoPow64) }

\* fieldDecoder: decodeInt for every field, or an array of k times decodeInt
FieldDecoder(array, k) ==
  IF array THEN [array |-> TRUE, decs |-> [i \in 1 .. k |-> [kind |-> "int"]]]
  ELSE [array |-> FALSE, dec |-> [kind |-> "int"]]

InitConstr ==
  InitCodec /\ input \in { [kind |-> "constr", tag |-> t, fields |-> f, array |-> a] :
                           t \in Tags, f \in SeqsUpTo(FieldSamples, MaxFields),
                           a \in BOOLEAN }

\* fields.map((item) => encodeInt(item))
EncodedFields(fields) == [i \in 1 .. Len(fields) |-> encodeInt(fields[i]).bytes]

EncodeConstr == EncodeStep(encodeConstr(input.tag, EncodedFields(input.fields)))

DecodeConstr ==
  DecodeStep("decodeConstr",
             decodeConstr(FieldDecoder(input.array, Len(input.fields)), wire.bytes, 0))

NextConstr == EncodeConstr \/ DecodeConstr

SpecConstr == InitConstr /\ [][NextConstr]_vars

IsWholeTag(t) == ~t.neg /\ t.frac = 0

\* C2: for every non-negative integer tag, in each of the three ranges, and
\* every list of fields, encodeConstr succeeds and decodeConstr of its bytes
\* returns (tag, fields) unchanged.
C2_ConstrRoundtrip ==
  /\ (phase = "encoded" /\ IsWholeTag(input.tag)) => wire.ok
  /\ phase = "decoded" =>
       /\ ret.ok
       /\ ret.val = <<input.tag, input.fields>>
       /\ ret.pos = Len(wire.bytes)

\* a tag of the escape form came back with two fields, through an array of
\* field decoders
C2_WitnessEscapeTag ==
  /\ phase = "decoded"
  /\ input.tag.mag = BigOfNat(5000)
  /\ Len(input.fields) = 2
  /\ input.array
  /\ ret.ok

\* the bytes of the tag part of a constr, by range
TagPrefix(t) ==
  IF BigLE(t.mag, BigOfNat(6)) THEN <<6 * 32 + 24, 121 + BigToNat(t.mag)>>
  ELSE IF BigLE(t.mag, BigOfNat(127))
    THEN <<6 * 32 + 25, (1280 + BigToNat(t.mag) - 7) \div 256,
           (1280 + BigToNat(t.mag) - 7) % 256>>
  ELSE <<6 * 32 + 24, 102, 4 * 32 + 2>>

\* C3: encodeConstr puts in front of the field list a major-type-6 head with
\* argument 121+tag for tag in 0..6, 1280+(tag-7) for tag in 7..127, and for
\* tag >= 128 the argument 102, the head (major type 4, count 2) and the tag as
\* a plain integer; a negative or non-integral tag is rejected and gives no
\* bytes.
C3_ConstrTagForm ==
  phase = "encoded" =>
    LET t == input.tag
        w == wire.bytes
        list == encodeList(EncodedFields(input.fields)).bytes
        pre == TagPrefix(t)
    IN  IF ~IsWholeTag(t) THEN ~wire.ok /\ w = <<>>
        ELSE /\ wire.ok
             /\ Len(w) >= Len(pre) + Len(list)
             /\ SubSeq(w, 1, Len(pre)) = pre
             /\ SubSeq(w, Len(w) - Len(list) + 1, Len(w)) = list
             /\ IF BigLE(t.mag, BigOfNat(127)) THEN Len(w) = Len(pre) + Len(list)
                ELSE LET i == decodeInt(w, Len(pre))
                     IN  /\ i.ok
                         /\ i.val = IntOf(FALSE, t.mag)
                         /\ i.pos = Len(w) - Len(list)

\* tag 127, the last of the middle range, was encoded as argument 1400
C3_WitnessMiddleRange ==
  /\ phase = "encoded"
  /\ input.tag = NumOf(FALSE, BigOfNat(127), 0)
  /\ SubSeq(wire.bytes, 1, 3) = <<217, 5, 120>>

\* a tag with a fractional part was rejected
C3_WitnessRejected ==
  /\ phase = "encoded"
  /\ input.tag.frac # 0
  /\ ~wire.ok

----------------------------------------------------------------------------
(* constructors from the wire: a major-type-6 head with argument n, what     *)
(* follows it, and an empty field list, given to decodeConstr([])            *)

MaxArg == 1500

\* arguments: every small one, and one of each wider head
Args ==
  { BigOfNat(k) : k \in 0 .. MaxArg }
    \cup { BigOfNat(Base - 1), BigOfNat(Base), TwoPow32, BigDec(TwoPow64) }

\* what follows the argument 102: nothing at all ("absent"), the indefinite
\* list head 0x9F ("indef"), or the head (m, k) in its shortest form ("def")
\* or with its argument in one byte more than needed ("wide")
NestedHeads ==
  { [form |-> "absent", m |-> 0, k |-> 0], [form |-> "indef", m |-> 4, k |-> 0] }
    \cup { [form |-> f, m |-> m, k |-> k] :
           f \in { "def", "wide" }, m \in 0 .. 6, k \in { 0, 1, 2, 3, 23 } }

NoNested == [form |-> "none", m |-> 0, k |-> 0]

NestedBytes(h) ==
  IF h.form = "def" THEN encodeDefHead(h.m, IntOfNat(h.k)).bytes
  ELSE IF h.form = "wide" THEN <<32 * h.m + 24, h.k>>
  ELSE IF h.form = "indef" THEN encodeIndefHead(h.m).bytes
  ELSE <<>>

\* the integers that follow the nested head
NestedInts ==
  { IntOfNat(0), IntOfNat(127), IntOfNat(128), IntOfNat(5000), IntOf(FALSE, TwoPow32),
    IntOf(TRUE, BigOfNat(1)), IntOf(TRUE, BigOfNat(25)), IntOf(TRUE, BigInc(TwoPow64)) }

ConstrWire(in) ==
  encodeDefHead(6, IntOf(FALSE, in.n)).bytes
    \o NestedBytes(in.nested)
    \o (IF in.nested.form \in { "none", "absent" } THEN <<>> ELSE encodeInt(in.v).bytes)
    \o (IF in.nested.form = "absent" THEN <<>> ELSE encodeList(<<>>).bytes)

InitConstrWire ==
  /\ bytes = <<>>
  /\ cursors = <<0>>
  /\ call = [op |-> "none", cur |-> 1, n |-> 0, before |-> <<0>>]
  /\ ret = Ok(<<>>, 0)
  /\ input \in
       { [kind |-> "wire", n |-> n, nested |-> NoNested, v |-> IntOfNat(0)] :
         n \in Args \ { BigOfNat(102) } }
         \cup { [kind |-> "wire", n |-> BigOfNat(102), nested |-> h, v |-> v] :
                h \in NestedHeads, v \in NestedInts }
  /\ wire = EncOk(ConstrWire(input))
  /\ phase = "encoded"
  /\ closure = NoClosure

DecodeConstrWire ==
  DecodeStep("decodeConstr", decodeConstr(FieldDecoder(TRUE, 0), wire.bytes, 0))

IsConstrWire ==
  /\ phase = "encoded"
  /\ bytes' = wire.bytes
  /\ cursors' = <<isConstr(wire.bytes, 0).pos>>
  /\ call' = [op |-> "isConstr", cur |-> 1, n |-> 0, before |-> <<0>>]
  /\ ret' = isConstr(wire.bytes, 0)
  /\ phase' = "probed"
  /\ UNCHANGED <<input, wire, closure>>

\* decodeConstrLazy and decodeTagged on a stream over the wire
LazyOnWire(op, out) ==
  /\ phase = "encoded"
  /\ bytes' = wire.bytes
  /\ cursors' = out.cursors
  /\ call' = [op |-> op, cur |-> Len(out.cursors), n |-> 0, before |-> <<0>>]
  /\ ret' = out.r
  /\ closure' = out.closure
  /\ phase' = "lazy"
  /\ UNCHANGED <<input, wire>>

DecodeConstrLazyWire ==
  LazyOnWire("decodeConstrLazy", decodeConstrLazy(BytesLike("stream", wire.bytes)))

DecodeTaggedWire == LazyOnWire("decodeTagged", decodeTagged(BytesLike("stream", wire.bytes)))

NextConstrWire ==
  DecodeConstrWire \/ IsConstrWire \/ DecodeConstrLazyWire \/ DecodeTaggedWire

SpecConstrWire == InitConstrWire /\ [][NextConstrWire]_vars

InLowRange(n) == Len(n) = 1 /\ 121 <= n[1] /\ n[1] <= 127

InMiddleRange(n) == Len(n) = 1 /\ 1280 <= n[1] /\ n[1] <= 1400

IsEscape(n) == n = <<102>>

\* the head that follows is (major type 4, count 2), however wide its argument
IsPairHead(h) == h.form \in { "def", "wide" } /\ h.m = 4 /\ h.k = 2

\* C4: decodeConstr fails with a DecodeError for every argument n outside
\* {102}, 121..127 and 1280..1400, and for n = 102 unless the head that follows
\* is (major type 4, count 2); for the accepted arguments the decoded tag is
\* n-121, n-1280+7, or the integer that follows the nested head.
C4_ConstrTagDecode ==
  phase = "decoded" =>
    LET n == input.n
    IN  IF InLowRange(n)
          THEN ret.ok /\ ret.val = <<NumOf(FALSE, BigOfNat(n[1] - 121), 0), <<>> >>
        ELSE IF InMiddleRange(n)
          THEN ret.ok /\ ret.val = <<NumOf(FALSE, BigOfNat(n[1] - 1280 + 7), 0), <<>> >>
        ELSE IF IsEscape(n) /\ IsPairHead(input.nested)
          THEN ret.ok /\ ret.val = <<Number(input.v), <<>> >>
        ELSE ~ret.ok /\ ret.err = "DecodeError"

\* the argument 102 was followed by a head that is not (4, 2), and refused
C4_WitnessBadNestedHead ==
  /\ phase = "decoded"
  /\ input.n = <<102>>
  /\ input.nested.form = "def"
  /\ input.nested.m = 4
  /\ input.nested.k = 3
  /\ ret.err = "DecodeError"

\* an argument of the dead zone between 127 and 1280 was refused
C4_WitnessDeadZone ==
  /\ phase = "decoded"
  /\ input.n = <<1279>>
  /\ ret.err = "DecodeError"

----------------------------------------------------------------------------
(* tags, maps and sets *)

decodeTag(bs, p) ==
  Bind(decodeDefHead(bs, p), LAMBDA h :
    IF h.val.m # 6 THEN Fail("DecodeError", h.pos) ELSE Ok(h.val.n, h.pos))

\* tag: a bigint
encodeTag(tag) == IF tag.neg /\ tag.mag # <<>> THEN EncFail ELSE encodeDefHead(6, tag)

isTag(bs, p) == Bind(peekMajorType(bs, p), LAMBDA r : Ok(r.val = 6, p))

isIndefMap(bs, p) == Bind(peekOne(bs, p), LAMBDA r : Ok(r.val = 5 * 32 + 31, p))

\* res.push([yield* keyDecoder(stream), yield* valueDecoder(stream)])
decodeMapPair(kd, vd, bs, p) ==
  Bind(ApplyDecoder(kd, bs, p, 0), LAMBDA k :
    Bind(ApplyDecoder(vd, bs, k.pos, 0), LAMBDA v : Ok(<<k.val, v.val>>, v.pos)))

RECURSIVE decodeDefMap(_, _, _, _, _, _, _)
decodeDefMap(bs, p, n, kd, vd, i, res) ==
  IF i < n THEN
    Bind(decodeMapPair(kd, vd, bs, p), LAMBDA pair :
      decodeDefMap(bs, pair.pos, n, kd, vd, i + 1, Append(res, pair.val)))
  ELSE Ok(res, p)

RECURSIVE decodeIndefMap(_, _, _, _, _)
decodeIndefMap(bs, p, kd, vd, res) ==
  Bind(peekOne(bs, p), LAMBDA pk :
    IF pk.val # 255 THEN
      Bind(decodeMapPair(kd, vd, bs, p), LAMBDA pair :
        decodeIndefMap(bs, pair.pos, kd, vd, Append(res, pair.val)))
    ELSE Bind(shiftOne(bs, p), LAMBDA e : Ok(res, e.pos)))

\* decodeMap that takes 0xBF for a definite head
decodeMapDefOnly(kd, vd, bs, p) ==
  Bind(decodeDefHead(bs, p), LAMBDA h :
    IF h.val.m # 5 THEN Fail("DecodeError", h.pos)
    ELSE decodeDefMap(bs, h.pos, BigToNat(h.val.n), kd, vd, 0, <<>>))

decodeMap(kd, vd, bs, p) ==
  Bind(isIndefMap(bs, p), LAMBDA indef :
    IF indef.val THEN
      Bind(shiftOne(bs, p), LAMBDA s : decodeIndefMap(bs, s.pos, kd, vd, <<>>))
    ELSE
      Bind(decodeDefHead(bs, p), LAMBDA h :
        IF h.val.m # 5 THEN Fail("DecodeError", h.pos)
        ELSE decodeDefMap(bs, h.pos, BigToNat(h.val.n), kd, vd, 0, <<>>)))

\* pairs: a sequence of <<key bytes, value bytes>>
RECURSIVE encodeMapInternal(_)
encodeMapInternal(pairs) ==
  IF pairs = <<>> THEN <<>>
  ELSE Head(pairs)[1] \o Head(pairs)[2] \o encodeMapInternal(Tail(pairs))

encodeDefMap(pairs) ==
  EncCat(encodeDefHead(5, IntOfNat(Len(pairs))), EncOk(encodeMapInternal(pairs)))

encodeIndefMap(pairs) ==
  EncCat(EncCat(encodeIndefHead(5), EncOk(encodeMapInternal(pairs))), EncOk(<<255>>))

encodeMap(pairs) == encodeDefMap(pairs)

SET_TAG == BigOfNat(258)

\* decodeSet that goes on to the list whatever the tag is
decodeSetAnyTag(d, bs, p) ==
  Bind(isTag(bs, p), LAMBDA t :
    IF t.val THEN Bind(decodeTag(bs, p), LAMBDA tag : decodeList(d, bs, tag.pos))
    ELSE decodeList(d, bs, p))

decodeSet(d, bs, p) ==
  Bind(isTag(bs, p), LAMBDA t :
    IF t.val THEN
      Bind(decodeTag(bs, p), LAMBDA tag :
        IF tag.val # SET_TAG THEN Fail("DecodeError", tag.pos)
        ELSE decodeList(d, bs, tag.pos))
    ELSE decodeList(d, bs, p))

encodeSet(items) == EncCat(encodeTag(IntOf(FALSE, SET_TAG)), encodeDefList(items))

\* peekTag: decodeTag on a copy of the stream, a DecodeError caught and
\* answered as undefined (defined = FALSE)
peekTag(bs, p) ==
  With(decodeTag(bs, copy(bs, p)), LAMBDA t :
    IF t.ok THEN Ok([defined |-> TRUE, tag |-> t.val], p)
    ELSE IF t.err = "DecodeError" THEN Ok([defined |-> FALSE, tag |-> <<>>], p)
    ELSE Fail(t.err, p))

\* t == SET_TAG, which is false for undefined
isSet(bs, p) ==
  Bind(peekTag(bs, p), LAMBDA t : Ok(t.val.defined /\ t.val.tag = SET_TAG, p))

----------------------------------------------------------------------------
(* objects *)

\* the rest of the value decoder once the key is read: undefined is the
\* DecodeError 'unhandled object field'; an inherited property is not
\* undefined, and calling it as a decoder throws a TypeError ("__proto__" is
\* no function; "constructor" returns the stream, which yield* cannot iterate);
\* val: <<key, value>>
decodeObjectField(prop, key, bs, p) ==
  IF prop.found = "undefined" THEN Fail("DecodeError", p)
  ELSE IF prop.found = "inherited" THEN Fail("Error", p)
  ELSE Bind(ApplyDecoder(prop.dec, bs, p, 0), LAMBDA v : Ok(<<key, v.val>>, v.pos))

\* res after res[key] = value for every pair in order: a later pair with the
\* same key replaces the earlier one. pairs: <<null, <<key, value>> >>
ObjectOf(pairs) ==
  [key \in { pairs[i][2][1] : i \in 1 .. Len(pairs) } |->
    LET last == CHOOSE i \in 1 .. Len(pairs) :
                  /\ pairs[i][2][1] = key
                  /\ \A j \in i + 1 .. Len(pairs) : pairs[j][2][1] # key
    IN  pairs[last][2][2]]

decodeObjectIKey(fieldDecoders, bs, p) ==
  Bind(decodeMap([kind |-> "succeedNull"],
                 [kind |-> "objectIKey", fieldDecoders |-> fieldDecoders], bs, p),
       LAMBDA r : Ok(ObjectOf(r.val), r.pos))

decodeObjectSKey(fieldDecoders, bs, p) ==
  Bind(decodeMap([kind |-> "succeedNull"],
                 [kind |-> "objectSKey", fieldDecoders |-> fieldDecoders], bs, p),
       LAMBDA r : Ok(ObjectOf(r.val), r.pos))

----------------------------------------------------------------------------
(* heads off the wire: any first byte, followed by zero to MaxTail bytes,    *)
(* or no byte at all, given to decodeDefHead and to the three peeks that     *)
(* callers use to tell the indefinite forms                                  *)

MaxTail == 9

TailByte(i) == (i * 37 + 1) % 256

Tails == { [i \in 1 .. k |-> TailByte(i)] : k \in 0 .. MaxTail }

InitHeadWire ==
  /\ bytes = <<>>
  /\ cursors = <<0>>
  /\ call = [op |-> "none", cur |-> 1, n |-> 0, before |-> <<0>>]
  /\ ret = Ok(<<>>, 0)
  /\ input \in { [kind |-> "bytes", bs |-> <<>>] }
       \cup { [kind |-> "bytes", bs |-> <<b0>> \o t] : b0 \in Byte, t \in Tails }
  /\ wire = EncOk(input.bs)
  /\ phase = "encoded"
  /\ closure = NoClosure

\* a probe called on a fresh cursor over the wire
ProbeStep(op, r) ==
  /\ phase = "encoded"
  /\ wire.ok
  /\ bytes' = wire.bytes
  /\ cursors' = <<r.pos>>
  /\ call' = [op |-> op, cur |-> 1, n |-> 0, before |-> <<0>>]
  /\ ret' = r
  /\ phase' = "probed"
  /\ UNCHANGED <<input, wire, closure>>

DecodeDefHeadWire == DecodeStep("decodeDefHead", decodeDefHead(wire.bytes, 0))

IsIndefBytesWire == ProbeStep("isIndefBytes", isIndefBytes(wire.bytes, 0))

IsIndefListWire == ProbeStep("isIndefList", isIndefList(wire.bytes, 0))

IsIndefMapWire == ProbeStep("isIndefMap", isIndefMap(wire.bytes, 0))

NextHeadWire ==
  \/ DecodeDefHeadWire
  \/ IsIndefBytesWire
  \/ IsIndefListWire
  \/ IsIndefMapWire

SpecHeadWire == InitHeadWire /\ [][NextHeadWire]_vars

\* the first byte of the wire, split as decodeFirstHeadByte splits it
FirstOfWire == decodeFirstHeadByte(wire.bytes[1])

\* the number of argument bytes the first byte announces
ExtendedWidth(n0) ==
  IF n0 = 24 THEN 1 ELSE IF n0 = 25 THEN 2 ELSE IF n0 = 26 THEN 4
  ELSE IF n0 = 27 THEN 8 ELSE 0

\* the first byte announces argument bytes and decodeDefHead goes on to read them
ReadsExtended(h) == h.n0 = 24 \/ (h.n0 \in { 25, 26, 27 } /\ h.m # 7)

\* C19 as stated: a first byte with low five bits 31 makes decodeDefHead report
\* the indefinite length to its caller without an error when the major type is
\* 2, 3, 4, 5 or 7, and fail with a DecodeError when it is 0, 1 or 6.
C19_IndefReportedNotError ==
  (phase = "decoded" /\ wire.bytes # <<>> /\ FirstOfWire.n0 = 31) =>
    IF FirstOfWire.m \in { 2, 3, 4, 5, 7 } THEN ret.ok
    ELSE ~ret.ok /\ ret.err = "DecodeError"

\* C19, amended: a first byte with low five bits 31 makes decodeDefHead fail
\* with a DecodeError whatever the major type, having read that one byte; the
\* indefinite forms are told by the peeks isIndefBytes, isIndefList and
\* isIndefMap, which answer true exactly on 0x5F, 0x9F and 0xBF and leave the
\* cursor where it was.
C19_IndefHeadIsDecodeError ==
  /\ (phase = "decoded" /\ wire.bytes # <<>> /\ FirstOfWire.n0 = 31) =>
       ~ret.ok /\ ret.err = "DecodeError" /\ ret.pos = 1
  /\ (phase = "probed" /\ wire.bytes # <<>>) =>
       /\ ret.ok
       /\ ret.pos = 0
       /\ call.op = "isIndefBytes" => (ret.val <=> wire.bytes[1] = 95)
       /\ call.op = "isIndefList" => (ret.val <=> wire.bytes[1] = 159)
       /\ call.op = "isIndefMap" => (ret.val <=> wire.bytes[1] = 191)

\* decodeDefHead met the indefinite list marker 0x9F and failed
C19_WitnessIndefListHead ==
  /\ phase = "decoded"
  /\ wire.bytes # <<>>
  /\ wire.bytes[1] = 159
  /\ ret.err = "DecodeError"

\* C20: decodeDefHead on a cursor already at its end fails with a DecodeError;
\* when the first byte announces 1, 2, 4 or 8 argument bytes and fewer remain,
\* it fails with EndOfStream; the two error kinds differ.
C20_EmptyHeadVersusTruncated ==
  phase = "decoded" =>
    /\ wire.bytes = <<>> => ~ret.ok /\ ret.err = "DecodeError"
    /\ (/\ wire.bytes # <<>>
        /\ ReadsExtended(FirstOfWire)
        /\ Len(wire.bytes) - 1 < ExtendedWidth(FirstOfWire.n0)) =>
         ~ret.ok /\ ret.err = "EndOfStream"
    /\ (/\ wire.bytes # <<>>
        /\ ReadsExtended(FirstOfWire)
        /\ Len(wire.bytes) - 1 >= ExtendedWidth(FirstOfWire.n0)) =>
         ret.ok /\ ret.pos = 1 + ExtendedWidth(FirstOfWire.n0)

\* an eight-byte argument was cut short after its seventh byte
C20_WitnessTruncatedEight ==
  /\ phase = "decoded"
  /\ Len(wire.bytes) = 8
  /\ wire.bytes[1] = 27
  /\ ret.err = "EndOfStream"

\* the empty wire was refused
C20_WitnessEmpty ==
  /\ phase = "decoded"
  /\ wire.bytes = <<>>
  /\ ret.err = "DecodeError"

----------------------------------------------------------------------------
(* maps: encodeMap or encodeIndefMap of integer pairs, then decodeMap with   *)
(* decodeInt for the keys and for the values                                 *)

MaxPairs == 3

\* keys that repeat easily; values of one, two and three bytes
PairSamples ==
  { <<IntOfNat(k), v>> : k \in { 0, 1 }, v \in { IntOf(TRUE, BigOfNat(1)), IntOfNat(24), IntOfNat(256) } }

EncodedPairs(pairs) ==
  [i \in 1 .. Len(pairs) |-> <<encodeInt(pairs[i][1]).bytes, encodeInt(pairs[i][2]).bytes>>]

InitMap ==
  InitCodec /\ input \in { [kind |-> "map", enc |-> e, pairs |-> ps] :
                           e \in { "encodeMap", "encodeIndefMap" },
                           ps \in SeqsUpTo(PairSamples, MaxPairs) }

EncodeMap == input.enc = "encodeMap" /\ EncodeStep(encodeMap(EncodedPairs(input.pairs)))

EncodeIndefMap ==
  input.enc = "encodeIndefMap" /\ EncodeStep(encodeIndefMap(EncodedPairs(input.pairs)))

DecodeMap ==
  DecodeStep("decodeMap", decodeMap([kind |-> "int"], [kind |-> "int"], wire.bytes, 0))

NextMap == EncodeMap \/ EncodeIndefMap \/ DecodeMap

SpecMap == InitMap /\ [][NextMap]_vars

\* the bytes of the pairs one after the other: key, value, key, value, ...
RECURSIVE FlatPairs(_)
FlatPairs(eps) ==
  IF eps = <<>> THEN <<>> ELSE <<Head(eps)[1], Head(eps)[2]>> \o FlatPairs(Tail(eps))

\* C15: encodeMap emits the major-type-5 head that carries the pair count and
\* then the pairs, never the 0xBF ... 0xFF form; decodeMap of the definite and
\* of the indefinite encoding returns the same pairs, in wire order, as many
\* as were encoded, duplicate keys kept.
C15_MapDefiniteAndDecode ==
  /\ (phase = "encoded" /\ input.enc = "encodeMap") =>
       LET w == wire.bytes
       IN  /\ wire.ok
           /\ w[1] = 5 * 32 + Len(input.pairs)
           /\ w[Len(w)] # 255
           /\ IsConcatOf(SubSeq(w, 2, Len(w)), FlatPairs(EncodedPairs(input.pairs)))
  /\ (phase = "encoded" /\ input.enc = "encodeIndefMap") =>
       wire.ok /\ wire.bytes[1] = 191 /\ wire.bytes[Len(wire.bytes)] = 255
  /\ phase = "decoded" =>
       /\ ret.ok
       /\ ret.val = input.pairs
       /\ Len(ret.val) = Len(input.pairs)
       /\ ret.pos = Len(wire.bytes)

\* three pairs with the same key twice came back from the indefinite form
C15_WitnessDuplicateKeyIndef ==
  /\ phase = "decoded"
  /\ input.enc = "encodeIndefMap"
  /\ Len(input.pairs) = 3
  /\ input.pairs[1][1] = input.pairs[3][1]
  /\ input.pairs[1][2] # input.pairs[3][2]
  /\ ret.ok
  /\ Len(ret.val) = 3

----------------------------------------------------------------------------
(* sets: encodeSet of integers, or the same list with no tag or under some   *)
(* other tag, then decodeSet(decodeInt)                                      *)

SetItemSamples == { IntOfNat(0), IntOfNat(24), IntOf(TRUE, BigOfNat(1)) }

\* tags next to 258, of each head width
OtherTags == { BigOfNat(0), BigOfNat(2), BigOfNat(257), BigOfNat(258), BigOfNat(259), BigOfNat(Base) }

EncodedItems(items) == [i \in 1 .. Len(items) |-> encodeInt(items[i]).bytes]

InitSet ==
  InitCodec /\ input \in
    { [kind |-> "set", enc |-> e, tag |-> SET_TAG, items |-> l] :
      e \in { "encodeSet", "encodeList" }, l \in SeqsUpTo(SetItemSamples, MaxListLen) }
    \cup { [kind |-> "set", enc |-> "encodeTag", tag |-> t, items |-> l] :
           t \in OtherTags, l \in SeqsUpTo(SetItemSamples, MaxListLen) }

EncodeSet == input.enc = "encodeSet" /\ EncodeStep(encodeSet(EncodedItems(input.items)))

\* the list alone, in the form encodeList picks
EncodeUntaggedSet ==
  input.enc = "encodeList" /\ EncodeStep(encodeList(EncodedItems(input.items)))

\* the definite list under the tag input.tag
EncodeTaggedList ==
  /\ input.enc = "encodeTag"
  /\ EncodeStep(EncCat(encodeTag(IntOf(FALSE, input.tag)),
                       encodeDefList(EncodedItems(input.items))))

DecodeSet == DecodeStep("decodeSet", decodeSet([kind |-> "int"], wire.bytes, 0))

NextSet == EncodeSet \/ EncodeUntaggedSet \/ EncodeTaggedList \/ DecodeSet

SpecSet == InitSet /\ [][NextSet]_vars

\* C17: encodeSet emits tag 258 (0xD9 0x01 0x02) and then the definite-length
\* list of the items; decodeSet accepts the list with or without a leading
\* tag, fails with a DecodeError when the leading tag is not 258, and returns
\* the items of encodeSet(items) in order.
C17_SetTagAndRoundtrip ==
  /\ (phase = "encoded" /\ input.enc = "encodeSet") =>
       LET w == wire.bytes
       IN  /\ wire.ok
           /\ SubSeq(w, 1, 3) = <<6 * 32 + 25, 1, 2>>
           /\ w[4] = 4 * 32 + Len(input.items)
           /\ IsConcatOf(SubSeq(w, 5, Len(w)), EncodedItems(input.items))
  /\ phase = "decoded" =>
       IF input.enc = "encodeTag" /\ input.tag # SET_TAG
         THEN ~ret.ok /\ ret.err = "DecodeError"
       ELSE ret.ok /\ ret.val = input.items /\ ret.pos = Len(wire.bytes)

\* a list of two items under tag 259 was refused
C17_WitnessWrongTag ==
  /\ phase = "decoded"
  /\ input.enc = "encodeTag"
  /\ input.tag = BigOfNat(259)
  /\ Len(input.items) = 2
  /\ ret.err = "DecodeError"

\* an untagged list of three items was accepted as a set
C17_WitnessUntagged ==
  /\ phase = "decoded"
  /\ input.enc = "encodeList"
  /\ Len(input.items) = 3
  /\ ret.ok

----------------------------------------------------------------------------
(* tuples: a list of j integers given to decodeTuple with k required and m   *)
(* optional decodeInt decoders                                               *)

\* decodeTuple without the test of res.length against itemDecoders.length
decodeTupleNoMinimum(itemDecoders, optionalDecoders, bs, p) ==
  decodeList([kind |-> "tupleItem", itemDecoders |-> itemDecoders,
              optionalDecoders |-> optionalDecoders], bs, p)

decodeTuple(itemDecoders, optionalDecoders, bs, p) ==
  Bind(decodeList([kind |-> "tupleItem", itemDecoders |-> itemDecoders,
                   optionalDecoders |-> optionalDecoders], bs, p),
       LAMBDA res :
         IF Len(res.val) < Len(itemDecoders) THEN Fail("DecodeError", res.pos)
         ELSE res)

encodeTuple(tuple) == encodeDefList(tuple)

MaxRequired == 2

MaxOptional == 2

TupleItemSamples == { IntOfNat(0), IntOfNat(24) }

\* k times decodeInt
IntDecoders(k) == [i \in 1 .. k |-> [kind |-> "int"]]

InitTuple ==
  InitCodec /\ input \in
    { [kind |-> "tuple", enc |-> e, k |-> k, m |-> m, items |-> l] :
      e \in { "encodeTuple", "encodeList" },
      k \in 0 .. MaxRequired, m \in 0 .. MaxOptional,
      l \in SeqsUpTo(TupleItemSamples, MaxRequired + MaxOptional + 1) }

EncodeTuple ==
  input.enc = "encodeTuple" /\ EncodeStep(encodeTuple(EncodedItems(input.items)))

\* the same items as a list in the form encodeList picks
EncodeTupleAsList ==
  input.enc = "encodeList" /\ EncodeStep(encodeList(EncodedItems(input.items)))

DecodeTuple ==
  DecodeStep("decodeTuple",
             decodeTuple(IntDecoders(input.k), IntDecoders(input.m), wire.bytes, 0))

NextTuple == EncodeTuple \/ EncodeTupleAsList \/ DecodeTuple

SpecTuple == InitTuple /\ [][NextTuple]_vars

\* C16: decodeTuple with k required and m optional item decoders, on a list of
\* j items, succeeds exactly when k <= j <= k + m, and then returns the j
\* decoded items in order; otherwise (j < k, or j > k + m) it fails with a
\* DecodeError.
C16_TupleArity ==
  phase = "decoded" =>
    LET j == Len(input.items)
    IN  IF input.k <= j /\ j <= input.k + input.m
          THEN ret.ok /\ ret.val = input.items /\ ret.pos = Len(wire.bytes)
        ELSE ~ret.ok /\ ret.err = "DecodeError"

\* one item fewer than the required decoders
C16_WitnessTooFew ==
  /\ phase = "decoded"
  /\ input.k = 2
  /\ Len(input.items) = 1
  /\ ret.err = "DecodeError"

\* one item more than all the decoders
C16_WitnessTooMany ==
  /\ phase = "decoded"
  /\ input.k = 1
  /\ input.m = 1
  /\ Len(input.items) = 3
  /\ ret.err = "DecodeError"

\* a required and one of two optional items
C16_WitnessOptionalPresent ==
  /\ phase = "decoded"
  /\ input.k = 1
  /\ input.m = 2
  /\ Len(input.items) = 2
  /\ ret.ok

----------------------------------------------------------------------------
(* byte strings: encodeBytes of 0 to MaxBytesLen bytes, split or not, then   *)
(* decodeBytes                                                               *)

MaxBytesLen == 130

\* content in which the bytes of a chunk all differ, and which begins with
\* the byte 0xFF
ContentByte(i) == (i * 37 + 218) % 256

Content(len) == [i \in 1 .. len |-> ContentByte(i)]

InitBytes ==
  InitCodec /\ input \in { [kind |-> "bytes", b |-> Content(len), split |-> sp] :
                           len \in 0 .. MaxBytesLen, sp \in BOOLEAN }

EncodeBytes == EncodeStep(encodeBytes(input.b, input.split))

DecodeBytes == DecodeStep("decodeBytes", decodeBytes(wire.bytes, 0))

NextBytes == EncodeBytes \/ DecodeBytes

SpecBytes == InitBytes /\ [][NextBytes]_vars

\* the head of a definite byte string of len <= 255 bytes
ShortBytesHead(len) == IF len <= 23 THEN <<2 * 32 + len>> ELSE <<2 * 32 + 24, len>>

\* chunks c .. n of b, each under its head: chunk c is bytes 64(c-1)+1 .. 64c
\* of b, the last one stopping where b stops
RECURSIVE ChunksFrom(_, _, _)
ChunksFrom(b, c, n) ==
  IF c > n THEN <<>>
  ELSE LET from == 64 * (c - 1) + 1
           to == IF 64 * c < Len(b) THEN 64 * c ELSE Len(b)
       IN  ShortBytesHead(to - from + 1) \o SubSeq(b, from, to) \o ChunksFrom(b, c + 1, n)

\* C13: encodeBytes(b, split) emits 0x5F, the chunks of b in order, each a
\* definite byte string of exactly 64 bytes except possibly the last, and
\* 0xFF, only when split is true and b is longer than 64 bytes; otherwise it
\* emits one definite byte string; decodeBytes gives b back in both cases.
C13_BytesChunking ==
  /\ phase = "encoded" =>
       LET b == input.b
           w == wire.bytes
       IN  /\ wire.ok
           /\ IF input.split /\ Len(b) > 64
                THEN w = <<95>> \o ChunksFrom(b, 1, (Len(b) + 63) \div 64) \o <<255>>
              ELSE w = ShortBytesHead(Len(b)) \o b
  /\ phase = "decoded" => ret.ok /\ ret.val = input.b /\ ret.pos = Len(wire.bytes)

\* 129 bytes came back from two chunks of 64 bytes and one of a single byte
C13_WitnessThreeChunks ==
  /\ phase = "decoded"
  /\ input.split
  /\ Len(input.b) = 129
  /\ Len(wire.bytes) = 1 + 2 + 64 + 2 + 64 + 1 + 1 + 1
  /\ ret.ok

\* 64 bytes, asked to be split, were left in one definite string
C13_WitnessExactly64 ==
  /\ phase = "encoded"
  /\ input.split
  /\ Len(input.b) = 64
  /\ wire.bytes[1] = 88

----------------------------------------------------------------------------
(* text strings: encodeString of a string, split or not, then decodeString   *)

MaxPad == 64

\* one character of each encoded length (A, e-acute, the euro sign, an emoji),
\* the byte order mark U+FEFF, and a surrogate without its partner
CharSamples == { 65, 233, 8364, 128512, BOM, 55296 }

Repeat(c, k) == [i \in 1 .. k |-> c]

\* a character, padding, a character where the first chunk ends, and a tail
\* that is empty or fills one more chunk
Strings ==
  { <<c0>> \o Repeat(65, k) \o <<c1>> \o Repeat(66, r) :
    c0 \in CharSamples, c1 \in CharSamples,
    k \in MaxPad - 5 .. MaxPad, r \in { 0, MaxPad } }

InitString ==
  InitCodec /\ input \in { [kind |-> "string", s |-> s, split |-> sp] :
                           s \in Strings, sp \in BOOLEAN }

EncodeString == EncodeStep(encodeString(input.s, input.split))

DecodeString == DecodeStep("decodeString", decodeString(wire.bytes, 0))

NextString == EncodeString \/ DecodeString

SpecString == InitString /\ [][NextString]_vars

\* the wire is a definite list of n >= 1 definite text strings; its chunks
RECURSIVE WireChunks(_, _, _)
WireChunks(w, p, n) ==
  IF n = 0 THEN IF p = Len(w) THEN <<>> ELSE << <<-1>> >>
  ELSE LET h == decodeDefHead(w, p)
       IN  IF ~h.ok \/ h.val.m # 3 THEN << <<-1>> >>
           ELSE LET c == shiftMany(w, h.pos, BigToNat(h.val.n))
                IN  IF ~c.ok THEN << <<-1>> >>
                    ELSE << c.val >> \o WireChunks(w, c.pos, n - 1)

\* chunk is the largest prefix of rest that is at most 64 bytes and valid UTF-8
IsLargestValidPrefix(chunk, rest) ==
  /\ Len(chunk) >= 1
  /\ Len(chunk) <= 64
  /\ chunk = SubSeq(rest, 1, Len(chunk))
  /\ Utf8IsValid(chunk)
  /\ \A l \in Len(chunk) + 1 .. 64 : l <= Len(rest) => ~Utf8IsValid(SubSeq(rest, 1, l))

\* every chunk is the largest valid prefix of the bytes not yet emitted, and
\* the chunks use the bytes up
RECURSIVE ChunksAreGreedy(_, _)
ChunksAreGreedy(chunks, rest) ==
  IF chunks = <<>> THEN rest = <<>>
  ELSE /\ IsLargestValidPrefix(Head(chunks), rest)
       /\ ChunksAreGreedy(Tail(chunks), SubSeq(rest, Len(Head(chunks)) + 1, Len(rest)))

\* the first part of C14: the split form of a string longer than 64 bytes
SplitFormHolds ==
  (phase = "encoded" /\ input.split /\ Len(Utf8Encode(input.s)) > 64) =>
    /\ wire.ok
    /\ LET h == decodeDefHead(wire.bytes, 0)
       IN  /\ h.ok
           /\ h.val.m = 4
           /\ ChunksAreGreedy(WireChunks(wire.bytes, h.pos, BigToNat(h.val.n)),
                              Utf8Encode(input.s))

\* C14 as stated: for a string whose UTF-8 encoding is longer than 64 bytes,
\* encodeString(s, true) emits a definite list of definite text-string chunks,
\* each the largest prefix of the remaining bytes that is at most 64 bytes and
\* valid UTF-8, the chunks concatenating to the original bytes; and
\* decodeString of that output returns s.
C14_SplitStringRoundtrip ==
  /\ SplitFormHolds
  /\ (phase = "decoded" /\ input.split /\ Len(Utf8Encode(input.s)) > 64) =>
       ret.ok /\ ret.val = input.s

\* s has no surrogate without its partner, and no U+FEFF where a chunk starts
RECURSIVE NoBOMAtChunkStart(_)
NoBOMAtChunkStart(chunks) ==
  IF chunks = <<>> THEN TRUE
  ELSE /\ ~(Len(Head(chunks)) >= 3 /\ SubSeq(Head(chunks), 1, 3) = Utf8EncodeChar(BOM))
       /\ NoBOMAtChunkStart(Tail(chunks))

\* C14, what the code does keep: the split form always holds, and decodeString
\* returns s when s holds no lone surrogate and no chunk starts with U+FEFF.
C14_SplitFormAndPlainRoundtrip ==
  /\ SplitFormHolds
  /\ (/\ phase = "decoded"
      /\ input.split
      /\ Len(Utf8Encode(input.s)) > 64
      /\ \A i \in 1 .. Len(input.s) : ~IsSurrogate(input.s[i])
      /\ NoBOMAtChunkStart(WireChunks(wire.bytes, 1, wire.bytes[1] - 4 * 32))) =>
       ret.ok /\ ret.val = input.s /\ ret.pos = Len(wire.bytes)

\* a string that starts with U+FEFF came back without it
C14_WitnessLostBOM ==
  /\ phase = "decoded"
  /\ input.split
  /\ Len(Utf8Encode(input.s)) > 64
  /\ Head(input.s) = BOM
  /\ ret.ok
  /\ ret.val = Tail(input.s)

\* a four-byte character that would straddle byte 64 went whole into the
\* second chunk, and the string came back
C14_WitnessShortFirstChunk ==
  /\ phase = "decoded"
  /\ input.split
  /\ input.s[1] = 65
  /\ \E i \in 1 .. Len(input.s) : input.s[i] = 128512
  /\ wire.bytes[2] = 3 * 32 + 24
  /\ wire.bytes[3] < 64
  /\ ret.ok
  /\ ret.val = input.s

----------------------------------------------------------------------------
(* objects: a map of integer-keyed or string-keyed integer fields, encoded   *)
(* by encodeMap, then decodeObjectIKey / decodeObjectSKey with decodeInt     *)
(* registered for some of the keys                                           *)

MaxEntries == 2

\* the keys a decoder can be registered for: 0 and 1, "a" and "b"; on the
\* wire also 2 and -1, "c"
RegistrableKeys(variant) ==
  IF variant = "IKey" THEN { IntOfNat(0), IntOfNat(1) } ELSE { <<97>>, <<98>> }

\* the keys a wire can hold: those, one more of the same sort, and two names
\* that every object inherits
WireKeys(variant) ==
  IF variant = "IKey" THEN RegistrableKeys(variant) \cup { IntOfNat(2), IntOf(TRUE, BigOfNat(1)) }
  ELSE RegistrableKeys(variant) \cup { <<99>>, PROTO_KEY, CONSTRUCTOR_KEY }

FieldValues == { IntOfNat(0), IntOfNat(24) }

InitObject ==
  InitCodec /\ input \in
    { [kind |-> "object", variant |-> v, registered |-> reg, entries |-> es] :
      v \in { "IKey" }, reg \in SUBSET RegistrableKeys("IKey"),
      es \in SeqsUpTo(WireKeys("IKey") \X FieldValues, MaxEntries) }
    \cup
    { [kind |-> "object", variant |-> v, registered |-> reg, entries |-> es] :
      v \in { "SKey" }, reg \in SUBSET RegistrableKeys("SKey"),
      es \in SeqsUpTo(WireKeys("SKey") \X FieldValues, MaxEntries) }

\* the property name of a key: the digits of an integer key, the string
PropertyKey(variant, k) == IF variant = "IKey" THEN NumberToString(Number(k)) ELSE k

EncodedKey(variant, k) ==
  IF variant = "IKey" THEN encodeInt(k).bytes ELSE encodeString(k, FALSE).bytes

EncodedEntries(variant, es) ==
  [i \in 1 .. Len(es) |-> <<EncodedKey(variant, es[i][1]), encodeInt(es[i][2]).bytes>>]

\* { key: decodeInt, ... } for the registered keys
FieldDecoders(variant, reg) ==
  [key \in { PropertyKey(variant, k) : k \in reg } |-> [kind |-> "int"]]

EncodeObject == EncodeStep(encodeMap(EncodedEntries(input.variant, input.entries)))

DecodeObjectIKey ==
  /\ input.variant = "IKey"
  /\ DecodeStep("decodeObjectIKey",
                decodeObjectIKey(FieldDecoders("IKey", input.registered), wire.bytes, 0))

DecodeObjectSKey ==
  /\ input.variant = "SKey"
  /\ DecodeStep("decodeObjectSKey",
                decodeObjectSKey(FieldDecoders("SKey", input.registered), wire.bytes, 0))

NextObject == EncodeObject \/ DecodeObjectIKey \/ DecodeObjectSKey

SpecObject == InitObject /\ [][NextObject]_vars

\* some key on the wire has no registered field decoder
HasUnregisteredKey ==
  \E i \in 1 .. Len(input.entries) : input.entries[i][1] \notin input.registered

\* the result holds exactly the keys of the wire, each with the value its
\* decoder produced (the last one when a key repeats)
ResultMatchesWire ==
  /\ DOMAIN ret.val =
       { PropertyKey(input.variant, input.entries[i][1]) : i \in 1 .. Len(input.entries) }
  /\ \A i \in 1 .. Len(input.entries) :
       (\A j \in i + 1 .. Len(input.entries) : input.entries[j][1] # input.entries[i][1])
         => ret.val[PropertyKey(input.variant, input.entries[i][1])] = input.entries[i][2]

\* C18 as stated: decodeObjectIKey and decodeObjectSKey fail with a DecodeError
\* exactly when some key on the wire has no registered field decoder; on
\* success the result holds exactly the keys present on the wire, each mapped
\* to the value its decoder produced, and nothing for the registered fields
\* that the wire does not hold.
C18_UnhandledFieldExactly ==
  phase = "decoded" =>
    IF HasUnregisteredKey THEN ~ret.ok /\ ret.err = "DecodeError"
    ELSE ret.ok /\ ResultMatchesWire

\* C18, what the code does keep: the same, for wires none of whose keys is a
\* name that objects inherit from Object.prototype.
C18_UnhandledFieldOwnNames ==
  (/\ phase = "decoded"
   /\ \A i \in 1 .. Len(input.entries) :
        PropertyKey(input.variant, input.entries[i][1]) \notin ObjectPrototypeKeys) =>
    IF HasUnregisteredKey THEN ~ret.ok /\ ret.err = "DecodeError"
    ELSE ret.ok /\ ResultMatchesWire /\ ret.pos = Len(wire.bytes)

\* the key "__proto__", with no decoder registered for it, did not end in a
\* DecodeError
C18_WitnessInheritedKey ==
  /\ phase = "decoded"
  /\ input.variant = "SKey"
  /\ Len(input.entries) = 1
  /\ input.entries[1][1] = PROTO_KEY
  /\ ~ret.ok
  /\ ret.err = "Error"

\* the key "c" (no such decoder) after a handled key "a" was refused
C18_WitnessUnhandled ==
  /\ phase = "decoded"
  /\ input.variant = "SKey"
  /\ input.registered = { <<97>> }
  /\ Len(input.entries) = 2
  /\ input.entries[1][1] = <<97>>
  /\ input.entries[2][1] = <<99>>
  /\ ret.err = "DecodeError"

----------------------------------------------------------------------------
(* lazy lists: decodeListLazy / decodeListLazyOption and their closure *)

\* calls of the closure after the last item
MaxExtraCalls == 2

LazyItemSamples == { IntOfNat(0), IntOfNat(24), IntOf(TRUE, BigOfNat(1)), IntOfNat(256) }

\* bytes that follow the list on the stream: none, or the integer 24
LazyTrailers == { <<>>, <<24, 24>> }

InitLazy ==
  InitCodec /\ input \in
    { [kind |-> "lazy", form |-> f, variant |-> v, items |-> l, trail |-> t] :
      f \in { "def", "indef" }, v \in { "fail", "option" },
      l \in SeqsUpTo(LazyItemSamples, MaxListLen), t \in LazyTrailers }

EncodeDefList ==
  /\ input.form = "def"
  /\ EncodeStep(EncCat(encodeDefList(EncodedItems(input.items)), EncOk(input.trail)))

EncodeIndefList ==
  /\ input.form = "indef"
  /\ EncodeStep(EncCat(encodeIndefList(EncodedItems(input.items)), EncOk(input.trail)))

\* the effect's result and the closure it returns
MakeLazy(op, made) ==
  /\ phase = "encoded" /\ wire.ok
  /\ bytes' = wire.bytes
  /\ cursors' = <<made.r.pos>>
  /\ call' = [op |-> op, cur |-> 1, n |-> 0, before |-> <<0>>]
  /\ ret' = made.r
  /\ closure' = made.closure
  /\ phase' = "lazy"
  /\ UNCHANGED <<input, wire>>

DecodeListLazy ==
  input.variant = "fail" /\ MakeLazy("decodeListLazy", decodeListLazy(wire.bytes, 0))

DecodeListLazyOption ==
  /\ input.variant = "option"
  /\ MakeLazy("decodeListLazyOption", decodeListLazyOption(wire.bytes, 0))

\* one call decodeItem(decodeInt) of the closure, on the stream it captured
DecodeItem ==
  /\ phase = "lazy" /\ closure.variant # "none"
  /\ call.n < Len(input.items) + MaxExtraCalls
  /\ LET out == decodeItem(closure, [kind |-> "int"], bytes, cursors[1])
     IN  /\ cursors' = <<out.r.pos>>
         /\ call' = [op |-> "decodeItem", cur |-> 1, n |-> call.n + 1, before |-> cursors]
         /\ ret' = out.r
         /\ closure' = out.closure
  /\ UNCHANGED <<bytes, input, wire, phase>>

NextLazy ==
  EncodeDefList \/ EncodeIndefList \/ DecodeListLazy \/ DecodeListLazyOption \/ DecodeItem

SpecLazy == InitLazy /\ [][NextLazy]_vars

\* C12: on a list of n items in definite or indefinite form, call k <= n of the
\* closure succeeds with item k; every call after the n-th leaves the cursor
\* where it was, and fails with DecodeError (the end-of-list error) for
\* decodeListLazy's closure, or returns undefined for decodeListLazyOption's.
C12_LazyListCalls ==
  /\ (phase = "lazy" /\ call.op # "decodeItem") => ret.ok /\ closure.variant = input.variant
  /\ (phase = "lazy" /\ call.op = "decodeItem") =>
       IF call.n <= Len(input.items)
       THEN ret.ok /\ ret.val = input.items[call.n]
       ELSE /\ cursors = call.before
            /\ cursors[1] = Len(wire.bytes) - Len(input.trail)
            /\ IF input.variant = "fail"
               THEN ~ret.ok /\ ret.err = "DecodeError"
               ELSE ret.ok /\ ret.val = "undefined"

\* a second call after the end of a three-item indefinite list, with bytes after it
C12_WitnessSecondLateCall ==
  /\ phase = "lazy" /\ call.op = "decodeItem"
  /\ input.form = "indef" /\ input.variant = "fail"
  /\ Len(input.items) = MaxListLen /\ input.trail # <<>>
  /\ call.n = Len(input.items) + 2
  /\ ~ret.ok

\* the option closure answering undefined on an empty definite list
C12_WitnessOptionUndefined ==
  /\ phase = "lazy" /\ call.op = "decodeItem"
  /\ input.form = "def" /\ input.variant = "option" /\ input.items = <<>>
  /\ ret.ok /\ ret.val = "undefined"

----------------------------------------------------------------------------
(* decoders one after the other on a shared stream *)

\* bytes already read from the stream before the item
Leads == { <<>>, <<0>> }

\* bytes after the item: none, a break byte, one-byte items, the integer 24,
\* the start of an indefinite byte string
Trailers == { <<>>, <<255>>, <<0>>, <<24, 24>>, <<64>>, <<95, 65, 7>> }

StreamInts == { IntOfNat(0), IntOfNat(24), IntOf(TRUE, BigOfNat(1)), IntOfNat(256),
                IntOf(FALSE, TwoPow64) }

\* encode(v), for the values v given to each encoder, with the decoder that reads it
StreamItems ==
  { [dec |-> "decodeBool", item |-> encodeBool(b)] : b \in BOOLEAN }
  \cup { [dec |-> "decodeNull", item |-> encodeNull] }
  \cup { [dec |-> "decodeInt", item |-> encodeInt(v)] : v \in StreamInts }
  \cup { [dec |-> "decodeBytes", item |-> encodeBytes(Content(len), sp)] :
         len \in { 0, 1, 24, 64, 65 }, sp \in BOOLEAN }
  \cup { [dec |-> "decodeString", item |-> encodeString(Repeat(c, k), sp)] :
         c \in { 65, 8364 }, k \in { 0, 1, 24, 65 }, sp \in BOOLEAN }
  \cup { [dec |-> "decodeList", item |-> enc] :
         enc \in { encodeList(EncodedItems(l)) : l \in SeqsUpTo(StreamInts, 2) }
                 \cup { encodeDefList(EncodedItems(l)) : l \in SeqsUpTo(StreamInts, 2) } }
  \cup { [dec |-> "decodeMap", item |-> enc] :
         enc \in { encodeMap(EncodedPairs(ps)) : ps \in SeqsUpTo(PairSamples, 2) }
                 \cup { encodeIndefMap(EncodedPairs(ps)) : ps \in SeqsUpTo(PairSamples, 2) } }
  \cup { [dec |-> "decodeSet", item |-> encodeSet(EncodedItems(l))] :
         l \in SeqsUpTo(StreamInts, 2) }
  \cup { [dec |-> "decodeConstr", item |-> encodeConstr(NumOf(FALSE, BigOfNat(t), 0),
                                                         EncodedItems(l))] :
         t \in { 0, 6, 7, 127, 128 }, l \in SeqsUpTo(StreamInts, 2) }
  \cup { [dec |-> "decodeTag", item |-> encodeTag(IntOfNat(t))] :
         t \in { 0, 23, 24, 258, Base } }

\* the stream holds lead, encode(v) and trail, and lead has been read
InitShared ==
  /\ input \in { [kind |-> "shared", dec |-> it.dec, item |-> it.item.bytes,
                  lead |-> ld, trail |-> tr] :
                 it \in { x \in StreamItems : x.item.ok }, ld \in Leads, tr \in Trailers }
  /\ bytes = input.lead \o input.item \o input.trail
  /\ cursors = <<Len(input.lead)>>
  /\ call = [op |-> "none", cur |-> 1, n |-> 0, before |-> <<0>>]
  /\ ret = Ok(<<>>, 0)
  /\ wire = EncOk(bytes)
  /\ phase = "encoded"
  /\ closure = NoClosure

\* the decoder input.dec is op: it runs first on the stream, from where the
\* cursor is; call.n counts the decoders that have run
DecodeOnStream(op, r) ==
  /\ call.op = "none" /\ input.dec = op
  /\ Step(op, 1, 1, r)

DecodeBoolOnStream == DecodeOnStream("decodeBool", decodeBool(bytes, cursors[1]))

DecodeNullOnStream == DecodeOnStream("decodeNull", decodeNull(bytes, cursors[1]))

DecodeIntOnStream == DecodeOnStream("decodeInt", decodeInt(bytes, cursors[1]))

DecodeBytesOnStream == DecodeOnStream("decodeBytes", decodeBytes(bytes, cursors[1]))

DecodeStringOnStream == DecodeOnStream("decodeString", decodeString(bytes, cursors[1]))

DecodeListOnStream ==
  DecodeOnStream("decodeList", decodeList([kind |-> "int"], bytes, cursors[1]))

DecodeMapOnStream ==
  DecodeOnStream("decodeMap",
                 decodeMap([kind |-> "int"], [kind |-> "int"], bytes, cursors[1]))

DecodeSetOnStream ==
  DecodeOnStream("decodeSet", decodeSet([kind |-> "int"], bytes, cursors[1]))

DecodeConstrOnStream ==
  DecodeOnStream("decodeConstr", decodeConstr(FieldDecoder(FALSE, 0), bytes, cursors[1]))

DecodeTagOnStream == DecodeOnStream("decodeTag", decodeTag(bytes, cursors[1]))

\* the next decoder on the same stream, after a decoder that succeeded
DecodeIntNext ==
  /\ call.n = 1 /\ ret.ok
  /\ Step("decodeInt", 1, 2, decodeInt(bytes, cursors[1]))

NextShared ==
  \/ DecodeBoolOnStream \/ DecodeNullOnStream \/ DecodeIntOnStream \/ DecodeBytesOnStream
  \/ DecodeStringOnStream \/ DecodeListOnStream \/ DecodeMapOnStream \/ DecodeSetOnStream
  \/ DecodeConstrOnStream \/ DecodeTagOnStream \/ DecodeIntNext

SpecShared == InitShared /\ [][NextShared]_vars

\* what decodeInt answers on the trailing bytes alone
TrailAlone == decodeInt(input.trail, 0)

\* C11: each of the ten decoders succeeds on encode(v) followed by trailing
\* bytes, and leaves the cursor advanced by exactly the length of encode(v);
\* the decoder that runs next on the stream starts at the first trailing byte,
\* so it answers what it answers on the trailing bytes alone.
C11_AdvancesByOneItem ==
  /\ call.n = 1 =>
       /\ ret.ok
       /\ cursors[1] = call.before[1] + Len(input.item)
       /\ call.before[1] = Len(input.lead)
  /\ call.n = 2 =>
       /\ call.before[1] = Len(input.lead) + Len(input.item)
       /\ ret.ok = TrailAlone.ok /\ ret.err = TrailAlone.err /\ ret.val = TrailAlone.val
       /\ cursors[1] = call.before[1] + TrailAlone.pos

\* an indefinite byte string of two chunks, a break byte right after it
C11_WitnessChunkedBytesThenBreak ==
  /\ call.n = 1 /\ call.op = "decodeBytes" /\ ret.ok
  /\ bytes[Len(input.lead) + 1] = 95 /\ Len(ret.val) = 65
  /\ input.lead # <<>> /\ input.trail = <<255>>

\* decodeInt reading 24 after an indefinite list that was read at an offset
C11_WitnessIntAfterList ==
  /\ call.n = 2 /\ input.dec = "decodeList" /\ input.lead # <<>>
  /\ bytes[Len(input.lead) + 1] = 159
  /\ ret.ok /\ ret.val = IntOfNat(24) /\ cursors[1] = Len(bytes)

----------------------------------------------------------------------------
(* decodeConstrLazy on the forms of its argument *)

Representations == { "array", "uint8array", "hex", "stream" }

LazyTags == { NumOf(FALSE, BigOfNat(t), 0) : t \in { 0, 6, 7, 127, 128, 5000 } }

InitConstrLazy ==
  InitCodec /\ input \in
    { [kind |-> "constrLazy", rep |-> rp, tag |-> t, fields |-> f] :
      rp \in Representations, t \in LazyTags, f \in SeqsUpTo(FieldSamples, MaxFields) }

EncodeConstrBytes == EncodeStep(encodeConstr(input.tag, EncodedFields(input.fields)))

DecodeConstrLazy ==
  /\ phase = "encoded" /\ wire.ok
  /\ LET out == decodeConstrLazy(BytesLike(input.rep, wire.bytes))
     IN  /\ cursors' = out.cursors
         /\ call' = [op |-> "decodeConstrLazy", cur |-> Len(out.cursors), n |-> 0,
                     before |-> <<0>>]
         /\ ret' = out.r
         /\ closure' = out.closure
  /\ bytes' = wire.bytes
  /\ phase' = "lazy"
  /\ UNCHANGED <<input, wire>>

\* decodeField(decodeInt), on the stream the closure has captured
DecodeField ==
  /\ phase = "lazy" /\ closure.variant # "none"
  /\ call.n < Len(input.fields) + MaxExtraCalls
  /\ LET out == decodeItem(closure, [kind |-> "int"], bytes, cursors[call.cur])
     IN  /\ cursors' = [cursors EXCEPT ![call.cur] = out.r.pos]
         /\ call' = [op |-> "decodeField", cur |-> call.cur, n |-> call.n + 1,
                     before |-> cursors]
         /\ ret' = out.r
         /\ closure' = out.closure
  /\ UNCHANGED <<bytes, input, wire, phase>>

NextConstrLazy == EncodeConstrBytes \/ DecodeConstrLazy \/ DecodeField

SpecConstrLazy == InitConstrLazy /\ [][NextConstrLazy]_vars

\* decodeConstrLazy answered the tag decodeConstr answers, and call k of the
\* closure gives field k, a call after the last field the end-of-list error
LazyConstrAgrees ==
  /\ (phase = "lazy" /\ call.op = "decodeConstrLazy") =>
       /\ ret.ok
       /\ ret.val = input.tag
       /\ ret.val = decodeConstr(FieldDecoder(FALSE, 0), wire.bytes, 0).val[1]
  /\ (phase = "lazy" /\ call.op = "decodeField") =>
       IF call.n <= Len(input.fields)
       THEN ret.ok /\ ret.val = input.fields[call.n]
       ELSE ~ret.ok /\ ret.err = "DecodeError" /\ cursors = call.before

\* C21: for every constructor value and every form of the argument (byte array,
\* Uint8Array, hex string, stream), decodeConstrLazy of encodeConstr(tag, fields)
\* returns the tag decodeConstr returns and a closure whose calls yield the
\* fields in order, as the lazy list decoder does.
C21_ConstrLazyAnyRepresentation == LazyConstrAgrees

\* the same, for the one form on which it holds: the argument is a stream
C21_ConstrLazyOnStream == input.rep = "stream" => LazyConstrAgrees

\* decodeConstrLazy of a byte array failed: the tag was read from one stream and
\* the list decoder started on another one, at the tag's head
C21_WitnessArrayFails ==
  /\ phase = "lazy" /\ call.op = "decodeConstrLazy" /\ input.rep = "array"
  /\ ~ret.ok /\ ret.err = "DecodeError"
  /\ Len(cursors) = 2 /\ cursors[1] > cursors[2]

\* on a stream, the second field of a constr with an escape-form tag
C21_WitnessStreamSecondField ==
  /\ phase = "lazy" /\ call.op = "decodeField" /\ input.rep = "stream"
  /\ input.tag.mag = BigOfNat(5000) /\ call.n = 2 /\ ret.ok

----------------------------------------------------------------------------
(* decodeTagged on a plain list and on a constr *)

TaggedForms == { "tuple", "list", "constr" }

InitTagged ==
  InitCodec /\ input \in
    { [kind |-> "tagged", form |-> fm, rep |-> rp, tag |-> t, fields |-> f] :
      fm \in TaggedForms, rp \in Representations, t \in LazyTags,
      f \in SeqsUpTo(FieldSamples, MaxFields) }

\* [tag, f1, ..., fk] with the tag and the fields encoded by encodeInt
PlainItems(tag, fields) == <<encodeInt(BigIntOf(tag)).bytes>> \o EncodedFields(fields)

\* the plain list in the definite form
EncodePlainTuple ==
  input.form = "tuple" /\ EncodeStep(encodeTuple(PlainItems(input.tag, input.fields)))

\* the plain list in the indefinite form encodeList gives a list that is not empty
EncodePlainList ==
  input.form = "list" /\ EncodeStep(encodeList(PlainItems(input.tag, input.fields)))

EncodeTaggedConstr ==
  /\ input.form = "constr"
  /\ EncodeStep(encodeConstr(input.tag, EncodedFields(input.fields)))

DecodeTagged ==
  /\ phase = "encoded" /\ wire.ok
  /\ LET out == decodeTagged(BytesLike(input.rep, wire.bytes))
     IN  /\ cursors' = out.cursors
         /\ call' = [op |-> "decodeTagged", cur |-> Len(out.cursors), n |-> 0,
                     before |-> <<0>>]
         /\ ret' = out.r
         /\ closure' = out.closure
  /\ bytes' = wire.bytes
  /\ phase' = "lazy"
  /\ UNCHANGED <<input, wire>>

NextTagged ==
  EncodePlainTuple \/ EncodePlainList \/ EncodeTaggedConstr \/ DecodeTagged \/ DecodeField

SpecTagged == InitTagged /\ [][NextTagged]_vars

\* C22: decodeTagged returns (tag, closure) alike for the plain list
\* [tag, f1, ..., fk], definite or indefinite, and for the constr of
\* (tag, [f1, ..., fk]): the tag is the list's first item or the constr tag,
\* the closure yields f1 .. fk in order, and one more call fails.
C22_TaggedUnifiesListAndConstr ==
  /\ (phase = "lazy" /\ call.op = "decodeTagged") =>
       ret.ok /\ ret.val = input.tag /\ Len(cursors) = 1
  /\ (phase = "lazy" /\ call.op = "decodeField") =>
       IF call.n <= Len(input.fields)
       THEN ret.ok /\ ret.val = input.fields[call.n]
       ELSE ~ret.ok /\ ret.err = "DecodeError" /\ cursors = call.before

\* the call after the last of two fields of a plain definite list given as hex
C22_WitnessListOneMoreCall ==
  /\ phase = "lazy" /\ call.op = "decodeField"
  /\ input.form = "tuple" /\ input.rep = "hex"
  /\ Len(input.fields) = 2 /\ call.n = 3 /\ ~ret.ok

\* the second field of a constr given as a byte array
C22_WitnessConstrSecondField ==
  /\ phase = "lazy" /\ call.op = "decodeField"
  /\ input.form = "constr" /\ input.rep = "array"
  /\ call.n = 2 /\ ret.ok /\ ret.val = input.fields[2]

----------------------------------------------------------------------------
(* every is-X probe, on streams with and without bytes left *)

IsDefBytes == \E c \in Cursor : Step("isDefBytes", c, 0, isDefBytes(bytes, cursors[c]))

IsIndefBytes ==
  \E c \in Cursor : Step("isIndefBytes", c, 0, isIndefBytes(bytes, cursors[c]))

IsDefList == \E c \in Cursor : Step("isDefList", c, 0, isDefList(bytes, cursors[c]))

IsIndefList == \E c \in Cursor : Step("isIndefList", c, 0, isIndefList(bytes, cursors[c]))

IsIndefMap == \E c \in Cursor : Step("isIndefMap", c, 0, isIndefMap(bytes, cursors[c]))

IsTag == \E c \in Cursor : Step("isTag", c, 0, isTag(bytes, cursors[c]))

IsSet == \E c \in Cursor : Step("isSet", c, 0, isSet(bytes, cursors[c]))

IsFloat == \E c \in Cursor : Step("isFloat", c, 0, isFloat(bytes, cursors[c]))

IsFloat16 == \E c \in Cursor : Step("isFloat16", c, 0, isFloat16(bytes, cursors[c]))

IsFloat32 == \E c \in Cursor : Step("isFloat32", c, 0, isFloat32(bytes, cursors[c]))

IsFloat64 == \E c \in Cursor : Step("isFloat64", c, 0, isFloat64(bytes, cursors[c]))

NextProbes ==
  \/ ShiftOne \/ ShiftRemaining
  \/ IsBool \/ IsBytes \/ IsConstr \/ IsInt \/ IsList \/ IsMap \/ IsNull \/ IsObject
  \/ IsString \/ IsTuple
  \/ IsDefBytes \/ IsIndefBytes \/ IsDefList \/ IsIndefList \/ IsIndefMap \/ IsTag \/ IsSet
  \/ IsFloat \/ IsFloat16 \/ IsFloat32 \/ IsFloat64

SpecProbes == InitStream /\ [][NextProbes]_vars

ProbeOps ==
  { "isBool", "isBytes", "isConstr", "isInt", "isList", "isMap", "isNull", "isObject",
    "isString", "isTuple", "isDefBytes", "isIndefBytes", "isDefList", "isIndefList",
    "isIndefMap", "isTag", "isSet", "isFloat", "isFloat16", "isFloat32", "isFloat64" }

\* the probes that decode a head on a copy and catch its DecodeError
DecodingProbes == { "isConstr", "isSet" }

\* the last call was a probe on a stream with no byte left: the empty input, or
\* a cursor at the end of its bytes
ProbedAtEnd == call.op \in ProbeOps /\ call.before[call.cur] = Len(bytes)

C23_WitnessIsBoolFails ==
  /\ bytes = <<>> /\ call.op = "isBool" /\ ~ret.ok /\ ret.err = "EndOfStream"

----------------------------------------------------------------------------
(* Float16.  A JS number is here [kind, neg, m, e]: kind is "zero", "inf",  *)
(* "nan" or "finite", and a finite number is m * 2^e with m odd, negated    *)
(* when neg.  Every product and quotient the codec forms is by a power of   *)
(* two, which is exact in a double.                                         *)

SPECIAL_EXPONENT == 31

LARGEST_SIGNIFICAND == 1024

\* the number of bits of m > 0
RECURSIVE BitLength(_)
BitLength(m) == IF m = 0 THEN 0 ELSE 1 + BitLength(m \div 2)

\* LARGEST_SIGNIFICAND is 2^SignificandBits
SignificandBits == BitLength(LARGEST_SIGNIFICAND) - 1

\* POW2[i] = 2^(i - 14), for the indices 0 .. 30 the table has
POW2Exponent(i) == i - 14

POW2Defined(i) == i \in 0 .. 30

FloatZero(neg) == [kind |-> "zero", neg |-> neg, m |-> 0, e |-> 0]

FloatInf(neg) == [kind |-> "inf", neg |-> neg, m |-> 0, e |-> 0]

FloatNaN == [kind |-> "nan", neg |-> FALSE, m |-> 0, e |-> 0]

\* the number m * 2^e, m > 0, with its sign
RECURSIVE Dyadic(_, _, _)
Dyadic(neg, m, e) ==
  IF m % 2 = 0 THEN Dyadic(neg, m \div 2, e + 1)
  ELSE [kind |-> "finite", neg |-> neg, m |-> m, e |-> e]

\* bytes.length != 2 gives Either.left(DecodeException)
decodeFloat16(bs) ==
  IF Len(bs) # 2 THEN Fail("DecodeException", 0)
  ELSE
    With([neg |-> bs[1] \div 128 # 0,             \* bytes[0] >> 7 ? -1 : 1
          exponent |-> (bs[1] \div 4) % 32,       \* (bytes[0] & 0b01111100) >> 2
          significand |-> (bs[1] % 4) * 256 + bs[2]],
         LAMBDA f :
      IF f.exponent = 0 THEN
        IF f.significand = 0 THEN Ok(FloatZero(f.neg), 0)
        ELSE \* (sign * POW2[0] * significand) / LARGEST_SIGNIFICAND
          Ok(Dyadic(f.neg, f.significand, POW2Exponent(0) - SignificandBits), 0)
      ELSE IF f.exponent = SPECIAL_EXPONENT THEN
        IF f.significand = 0 THEN Ok(FloatInf(f.neg), 0) ELSE Ok(FloatNaN, 0)
      ELSE \* sign * POW2[exponent - 1] * (1.0 + significand / LARGEST_SIGNIFICAND)
        Ok(Dyadic(f.neg, LARGEST_SIGNIFICAND + f.significand,
                  POW2Exponent(f.exponent - 1) - SignificandBits), 0))

\* a | b
RECURSIVE BitOr(_, _)
BitOr(a, b) ==
  IF a = 0 THEN b
  ELSE IF b = 0 THEN a
  ELSE (IF a % 2 = 1 \/ b % 2 = 1 THEN 1 ELSE 0) + 2 * BitOr(a \div 2, b \div 2)

\* Math.floor(Math.log2(f)) of a finite f > 0
FloorLog2(f) == f.e + BitLength(f.m) - 1

\* Math.floor(m * 2^t) and Math.round(m * 2^t)
ScaleFloor(m, t) == IF t >= 0 THEN m * 2 ^ t ELSE m \div 2 ^ (-t)

ScaleRound(m, t) == IF t >= 0 THEN m * 2 ^ t ELSE (m + 2 ^ (-t - 1)) \div 2 ^ (-t)

\* the last branch of encodeFloat16: f is finite and not zero
encodeFloat16Finite(f) ==
  With(IF f.neg THEN 128 ELSE 0, LAMBDA signBit :
    IF FloorLog2(f) < POW2Exponent(0) THEN \* f < POW2[0]
      With(ScaleFloor(f.m, f.e - POW2Exponent(0) + SignificandBits),
           LAMBDA significand :
        <<BitOr(signBit, significand \div 256), significand % 256>>)
    ELSE
      With((FloorLog2(f) + 15) % 32, LAMBDA exponent :
        IF ~POW2Defined(exponent - 1) THEN \* f / undefined is NaN, and NaN >> 8 is 0
          <<BitOr(signBit, exponent * 4), 0>>
        ELSE
          With(ScaleRound(f.m, f.e - POW2Exponent(exponent - 1) + SignificandBits)
                 - LARGEST_SIGNIFICAND,
               LAMBDA significand :
            <<BitOr(BitOr(signBit, exponent * 4), significand \div 256),
              significand % 256>>)))

\* encodeFloat16 that tests f === 0 where the code tests Object.is(f, 0) and
\* Object.is(f, -0)
encodeFloat16ZeroByEquality(f) ==
  IF f.kind = "zero" THEN <<0, 0>>
  ELSE IF f.kind = "inf" THEN IF f.neg THEN <<252, 0>> ELSE <<124, 0>>
  ELSE IF f.kind = "nan" THEN <<124, 1>>
  ELSE encodeFloat16Finite(f)

encodeFloat16(f) ==
  IF f.kind = "zero" THEN IF f.neg THEN <<128, 0>> ELSE <<0, 0>>
  ELSE IF f.kind = "inf" THEN IF f.neg THEN <<252, 0>> ELSE <<124, 0>>
  ELSE IF f.kind = "nan" THEN <<124, 1>>
  ELSE encodeFloat16Finite(f)

\* every pattern of two bytes, and byte strings of the lengths 0, 1 and 3
Float16Inputs ==
  { <<b0, b1>> : b0 \in 0 .. 255, b1 \in 0 .. 255 } \cup { <<>>, <<0>>, <<0, 0, 0>> }

InitFloat16 ==
  /\ input \in { [kind |-> "float16", bs |-> bs] : bs \in Float16Inputs }
  /\ bytes = input.bs
  /\ cursors = <<0>>
  /\ call = [op |-> "none", cur |-> 1, n |-> 0, before |-> <<0>>]
  /\ ret = Ok(<<>>, 0)
  /\ wire = EncOk(<<>>)
  /\ phase = "start"
  /\ closure = NoClosure

DecodeFloat16 ==
  /\ phase = "start"
  /\ ret' = decodeFloat16(bytes)
  /\ call' = [op |-> "decodeFloat16", cur |-> 1, n |-> 0, before |-> <<0>>]
  /\ phase' = "decoded"
  /\ UNCHANGED <<bytes, cursors, input, wire, closure>>

EncodeFloat16 ==
  /\ phase = "decoded" /\ ret.ok
  /\ wire' = EncOk(encodeFloat16(ret.val))
  /\ call' = [op |-> "encodeFloat16", cur |-> 1, n |-> 0, before |-> <<0>>]
  /\ phase' = "encoded"
  /\ UNCHANGED <<bytes, cursors, ret, input, closure>>

NextFloat16 == DecodeFloat16 \/ EncodeFloat16

SpecFloat16 == InitFloat16 /\ [][NextFloat16]_vars

\* exponent field 31 with a significand that is not zero
IsNaNPattern(bs) == (bs[1] \div 4) % 32 = 31 /\ (bs[1] % 4) * 256 + bs[2] # 0

\* C24: for every two-byte pattern that is not a NaN pattern (+0, -0, the
\* subnormals, the normal values and both infinities),
\* encodeFloat16(decodeFloat16(bytes)) gives the same two bytes back.
C24_Float16Roundtrip ==
  /\ (phase = "decoded" /\ Len(bytes) = 2) => ret.ok
  /\ (phase = "encoded" /\ ~IsNaNPattern(bytes)) => wire.bytes = bytes

\* the largest negative subnormal, 0x83FF, came back
C24_WitnessNegativeSubnormal ==
  phase = "encoded" /\ bytes = <<131, 255>> /\ ret.val.kind = "finite" /\ wire.bytes = bytes

\* minus zero, 0x8000, came back
C24_WitnessMinusZero ==
  phase = "encoded" /\ bytes = <<128, 0>> /\ ret.val = FloatZero(TRUE) /\ wire.bytes = bytes

\* the largest normal value 65504, 0x7BFF, came back
C24_WitnessLargestNormal ==
  /\ phase = "encoded" /\ bytes = <<123, 255>>
  /\ ret.val = [kind |-> "finite", neg |-> FALSE, m |-> 2047, e |-> 5]
  /\ wire.bytes = bytes

----------------------------------------------------------------------------
(* the tags decodeConstr, decodeConstrLazy and decodeTagged return *)

\* the tag of a result of one of the three decoders
ReturnedTag == IF call.op = "decodeConstr" THEN ret.val[1] ELSE ret.val

ConstrDecoded ==
  /\ call.op \in { "decodeConstr", "decodeConstrLazy", "decodeTagged" }
  /\ phase \in { "decoded", "lazy" }
  /\ ret.ok

\* C25: every tag returned by a successful decodeConstr, decodeConstrLazy or
\* decodeTagged on a constr is a non-negative integer, also when the tag comes
\* through the argument-102 escape form.
C25_TagsNonNegative == ConstrDecoded => ~ReturnedTag.neg /\ ReturnedTag.frac = 0

\* the same for the tags that do not come through the escape form
C25_DirectTagsNonNegative ==
  (ConstrDecoded /\ ~IsEscape(input.n)) => ~ReturnedTag.neg /\ ReturnedTag.frac = 0

\* decodeConstr returned the tag -1 for the bytes D8 66 82 20 80
C25_WitnessNegativeTag ==
  /\ phase = "decoded" /\ call.op = "decodeConstr" /\ ret.ok
  /\ bytes = <<216, 102, 130, 32, 128>>
  /\ ret.val[1] = NumOf(TRUE, BigOfNat(1), 0)

\* decodeTagged returned a negative tag that came as a tag-3 bignum
C25_WitnessNegativeBignumTag ==
  /\ phase = "lazy" /\ call.op = "decodeTagged" /\ ret.ok
  /\ input.v = IntOf(TRUE, BigInc(TwoPow64)) /\ ret.val.neg

----------------------------------------------------------------------------
(* decodeList and decodeListLazy with an item decoder that records its index *)

\* (stream, i) => decodeInt(stream), returned together with i
IndexedDecoder == [kind |-> "indexed"]

InitIndexed ==
  InitCodec /\ input \in
    { [kind |-> "indexed", form |-> f, items |-> l, trail |-> t] :
      f \in { "def", "indef" },
      l \in SeqsUpTo(LazyItemSamples, MaxListLen), t \in LazyTrailers }

EncodeDefItems ==
  /\ input.form = "def"
  /\ EncodeStep(EncCat(encodeDefList(EncodedItems(input.items)), EncOk(input.trail)))

EncodeIndefItems ==
  /\ input.form = "indef"
  /\ EncodeStep(EncCat(encodeIndefList(EncodedItems(input.items)), EncOk(input.trail)))

DecodeListIndexed == DecodeStep("decodeList", decodeList(IndexedDecoder, wire.bytes, 0))

DecodeListLazyIndexed == MakeLazy("decodeListLazy", decodeListLazy(wire.bytes, 0))

\* one call decodeItem(itemDecoder) of the closure, for every item of the list
DecodeItemIndexed ==
  /\ phase = "lazy" /\ closure.variant # "none"
  /\ call.n < Len(input.items)
  /\ LET out == decodeItem(closure, IndexedDecoder, bytes, cursors[1])
     IN  /\ cursors' = <<out.r.pos>>
         /\ call' = [op |-> "decodeItem", cur |-> 1, n |-> call.n + 1, before |-> cursors]
         /\ ret' = out.r
         /\ closure' = out.closure
  /\ UNCHANGED <<bytes, input, wire, phase>>

NextIndexed ==
  \/ EncodeDefItems \/ EncodeIndefItems
  \/ DecodeListIndexed \/ DecodeListLazyIndexed \/ DecodeItemIndexed

SpecIndexed == InitIndexed /\ [][NextIndexed]_vars

\* item k of the list together with the index k - 1, for every k in order
IndexedItems(items) == [k \in 1 .. Len(items) |-> [i |-> k - 1, v |-> items[k]]]

\* C26: decodeList calls itemDecoder once per item with the indices 0, 1, ...,
\* n-1 in increasing order and returns the items in wire order; the definite and
\* the indefinite encoding of the same items give the same sequence.
C26_ListIndicesInOrder ==
  (phase = "decoded" /\ call.op = "decodeList") =>
    /\ ret.ok
    /\ ret.val = IndexedItems(input.items)
    /\ ret.pos = Len(bytes) - Len(input.trail)

\* three items of an indefinite list came back with the indices 0, 1, 2
C26_WitnessIndefThree ==
  /\ phase = "decoded" /\ call.op = "decodeList" /\ ret.ok
  /\ input.form = "indef" /\ Len(input.items) = 3
  /\ input.items[1] # input.items[2]
  /\ <<ret.val[1].i, ret.val[2].i, ret.val[3].i>> = <<0, 1, 2>>

\* the same for the definite form, with bytes after the list
C26_WitnessDefThree ==
  /\ phase = "decoded" /\ call.op = "decodeList" /\ ret.ok
  /\ input.form = "def" /\ Len(input.items) = 3 /\ input.trail # <<>>
  /\ ret.val[3] = [i |-> 2, v |-> input.items[3]]

\* what eager decodeList answers on the bytes of the stream
Eager == decodeList(IndexedDecoder, bytes, 0)

\* C30: calling the closure of decodeListLazy once per item passes the item
\* decoder the same indices and yields the same items as eager decodeList, and
\* after the last item the cursor is where eager decoding ends: the break byte
\* of an indefinite list is read by the call that returns the last item, or by
\* decodeListLazy itself when the list is empty.
C30_LazyMatchesEager ==
  phase = "lazy" =>
    /\ ret.ok
    /\ Eager.ok /\ Len(Eager.val) = Len(input.items)
    /\ call.op = "decodeItem" => ret.val = Eager.val[call.n]
    /\ call.n = Len(Eager.val) => cursors[1] = Eager.pos /\ closure.done
    /\ call.n < Len(Eager.val) => cursors[1] < Eager.pos /\ ~closure.done
    /\ (input.form = "indef" /\ call.n = Len(Eager.val)) =>
         /\ bytes[cursors[1]] = 255
         /\ call.op = "decodeItem" => call.before[1] < cursors[1] - 1

\* the call for the third item of an indefinite list also read the break byte
C30_WitnessLastCallReadsBreak ==
  /\ phase = "lazy" /\ call.op = "decodeItem" /\ call.n = 3
  /\ input.form = "indef" /\ input.trail # <<>>
  /\ ret.ok /\ ret.val.i = 2
  /\ cursors[1] = Eager.pos /\ bytes[cursors[1]] = 255

\* decodeListLazy itself read the break byte of the empty indefinite list
C30_WitnessEmptyIndef ==
  /\ phase = "lazy" /\ call.op = "decodeListLazy"
  /\ input.form = "indef" /\ input.items = <<>>
  /\ cursors = <<2>> /\ closure.done

----------------------------------------------------------------------------
(* decodeBytes on an indefinite byte string made of chunks of every kind *)

MaxChunks == 2

\* the elements between 0x5F and the break byte: a definite head of major type
\* m followed by len bytes, or the indefinite head of a byte or text string
ChunkSamples ==
  { [form |-> "def", m |-> m, len |-> len] : m \in { 0, 2, 3, 7 }, len \in { 0, 1, 64, 65 } }
  \cup { [form |-> "indef", m |-> m, len |-> 0] : m \in { 2, 3 } }

ChunkBytes(ch) ==
  IF ch.form = "indef" THEN encodeIndefHead(ch.m).bytes
  ELSE encodeDefHead(ch.m, IntOfNat(ch.len)).bytes \o Content(ch.len)

\* 0x5F, the elements, and the break byte when there is one
ChunkedWire(in) ==
  encodeIndefHead(2).bytes
    \o encodeListInternal([k \in 1 .. Len(in.chunks) |-> ChunkBytes(in.chunks[k])])
    \o (IF in.break THEN <<255>> ELSE <<>>)

InitChunked ==
  /\ bytes = <<>>
  /\ cursors = <<0>>
  /\ call = [op |-> "none", cur |-> 1, n |-> 0, before |-> <<0>>]
  /\ ret = Ok(<<>>, 0)
  /\ input \in { [kind |-> "chunked", chunks |-> cs, break |-> b] :
                 cs \in SeqsUpTo(ChunkSamples, MaxChunks), b \in BOOLEAN }
  /\ wire = EncOk(ChunkedWire(input))
  /\ phase = "encoded"
  /\ closure = NoClosure

DecodeChunked == DecodeStep("decodeBytes", decodeBytes(wire.bytes, 0))

IsIndefBytesChunked ==
  /\ phase = "encoded" /\ call.op = "none"
  /\ bytes' = wire.bytes
  /\ call' = [op |-> "isIndefBytes", cur |-> 1, n |-> 0, before |-> <<0>>]
  /\ ret' = isIndefBytes(wire.bytes, 0)
  /\ UNCHANGED <<cursors, input, wire, phase, closure>>

NextChunked == DecodeChunked \/ IsIndefBytesChunked

SpecChunked == InitChunked /\ [][NextChunked]_vars

IsBytesChunk(ch) == ch.form = "def" /\ ch.m = 2

TooLong(ch) == ch.form = "def" /\ ch.len > 64

Chunks == { input.chunks[k] : k \in 1 .. Len(input.chunks) }

ChunkedDecoded == phase = "decoded" /\ call.op = "decodeBytes"

\* C27: decodeBytes on an indefinite byte string accepts only definite
\* major-type-2 chunks of at most 64 bytes, ended by 0xFF; it fails with a
\* DecodeError when a chunk is longer than 64 bytes or when an element before
\* the break byte is not a definite byte-string chunk.
C27_OnlyByteStringChunks ==
  ChunkedDecoded =>
    /\ ret.ok => \A ch \in Chunks : IsBytesChunk(ch) /\ ~TooLong(ch)
    /\ (\E ch \in Chunks : TooLong(ch) \/ ~IsBytesChunk(ch)) =>
         ~ret.ok /\ ret.err = "DecodeError"

\* what the loop does check: the head is a definite one and its argument is at
\* most 64, whatever the major type
C27_ChunkHeadAndLengthChecked ==
  ChunkedDecoded =>
    IF \E ch \in Chunks : TooLong(ch) \/ ch.form = "indef"
      THEN ~ret.ok /\ ret.err = "DecodeError"
    ELSE IF ~input.break THEN ~ret.ok /\ ret.err = "EndOfStream"
    ELSE /\ ret.ok /\ ret.pos = Len(bytes)
         /\ ret.val = encodeListInternal(
                        [k \in 1 .. Len(input.chunks) |-> Content(input.chunks[k].len)])

\* 5F 61 FF FF: a text-string chunk of one byte was accepted as a chunk
C27_WitnessTextChunkAccepted ==
  /\ ChunkedDecoded /\ ret.ok
  /\ bytes = <<95, 97, 255, 255>>
  /\ ret.val = <<255>>

\* a byte-string chunk of 65 bytes after one of 64 bytes was refused
C27_WitnessLongChunkRefused ==
  /\ ChunkedDecoded /\ ~ret.ok /\ ret.err = "DecodeError"
  /\ input.chunks = << [form |-> "def", m |-> 2, len |-> 64],
                       [form |-> "def", m |-> 2, len |-> 65] >>

----------------------------------------------------------------------------
(* decodeInt on every wire form of an integer, and on other items *)

\* zero bytes in front of a bignum's big-endian bytes
MaxLeadingZeros == 2

\* integers on both sides of every head width, and beyond 64 bits
WireInts ==
  { IntOf(neg, mag) :
    neg \in BOOLEAN,
    mag \in { BigOfNat(k) : k \in { 0, 1, 23, 24, 25, 255, 256, 257, Base - 1 } }
            \cup { BigOfNat(Base), BigInc(BigOfNat(Base)), BigDec(TwoPow32), TwoPow32,
                   BigInc(TwoPow32), BigDec(TwoPow64), TwoPow64, BigInc(TwoPow64) } }

\* the head of v: major type 0 with argument v, or 1 with argument -v - 1
MajorOf(v) == IF v.neg THEN 1 ELSE 0

ArgumentOf(v) == IF v.neg THEN BigDec(v.mag) ELSE v.mag

\* the widths a head can carry the argument n in: none (inline) and 1, 2, 4, 8 bytes
WidthsFor(n) ==
  { w \in { 0, 1, 2, 4, 8 } :
    IF w = 0 THEN BigLE(n, BigOfNat(23)) ELSE Len(BigEndianEncode(n)) <= w }

WideHead(m, n, w) ==
  IF w = 0 THEN <<32 * m + BigToNat(n)>>
  ELSE <<32 * m + HeadCode(w)>> \o PadLeft(BigEndianEncode(n), w)

\* a byte string as one definite item, or as 0x5F, its first byte as a chunk,
\* the other bytes as a second chunk, and the break byte
BytesItem(content, chunked) ==
  IF ~chunked THEN encodeBytes(content, FALSE).bytes
  ELSE <<95, 64 + 1, content[1]>>
         \o <<64 + Len(content) - 1>> \o Tail(content) \o <<255>>

Bignum(v, zeros, chunked) ==
  <<6 * 32 + (IF v.neg THEN 3 ELSE 2)>>
    \o BytesItem(PadLeft(BigEndianEncode(ArgumentOf(v)),
                         Len(BigEndianEncode(ArgumentOf(v))) + zeros), chunked)

\* items that are no integer: heads of the other major types, other tags in
\* front of a byte string, tag 2 in front of something else than bytes
OtherItems ==
  { WideHead(m, BigOfNat(n), w) \o <<1>> :
    m \in { 2, 3, 4, 5, 7 }, n \in { 0, 1, 23 }, w \in { 0, 1 } }
  \cup { encodeIndefHead(m).bytes \o <<255>> : m \in { 2, 3, 4, 5, 7 } }
  \cup { WideHead(6, BigOfNat(t), w) \o <<65, 1>> :
         t \in { 0, 1, 4, 5, 23 }, w \in { 0, 1, 2 } }
  \cup { WideHead(6, BigOfNat(t), w) \o <<65, 1>> : t \in { 24, 258 }, w \in { 2, 4 } }
  \cup { <<6 * 32 + t>> \o rest : t \in { 2, 3 }, rest \in { <<1>>, <<97, 1>>, <<64>> } }

IntWires ==
  UNION { { [kind |-> "head", v |-> v, bs |-> WideHead(MajorOf(v), ArgumentOf(v), w)] :
            w \in WidthsFor(ArgumentOf(v)) } :
          v \in { x \in WireInts : Below2Pow64(ArgumentOf(x)) } }
  \cup { [kind |-> "bignum", v |-> v, bs |-> Bignum(v, z, ch)] :
         v \in WireInts, z \in 0 .. MaxLeadingZeros, ch \in BOOLEAN }
  \cup { [kind |-> "other", v |-> IntOfNat(0), bs |-> bs] : bs \in OtherItems }

InitIntWire ==
  /\ bytes = <<>>
  /\ cursors = <<0>>
  /\ call = [op |-> "none", cur |-> 1, n |-> 0, before |-> <<0>>]
  /\ ret = Ok(<<>>, 0)
  /\ input \in IntWires
  /\ wire = EncOk(input.bs)
  /\ phase = "encoded"
  /\ closure = NoClosure

DecodeIntWire == DecodeStep("decodeInt", decodeInt(wire.bytes, 0))

IsIntWire ==
  /\ phase = "encoded" /\ call.op = "none"
  /\ bytes' = wire.bytes
  /\ call' = [op |-> "isInt", cur |-> 1, n |-> 0, before |-> <<0>>]
  /\ ret' = isInt(wire.bytes, 0)
  /\ UNCHANGED <<cursors, input, wire, phase, closure>>

NextIntWire == DecodeIntWire \/ IsIntWire

SpecIntWire == InitIntWire /\ [][NextIntWire]_vars

\* C28: decodeInt yields the same integer v from a major-type-0/1 head of any
\* argument width (argument v, or -v - 1) and from a tag-2/tag-3 bignum byte
\* string (big-endian v, or -v - 1); an item of any other major type or under
\* any other tag makes it fail with a DecodeError.
C28_IntFromAnyForm ==
  (phase = "decoded" /\ call.op = "decodeInt") =>
    IF input.kind = "other" THEN ~ret.ok /\ ret.err = "DecodeError"
    ELSE ret.ok /\ ret.val = input.v /\ ret.pos = Len(bytes)

\* -1 came as a tag-3 bignum in two chunks with zero bytes in front
C28_WitnessNegativeBignum ==
  /\ phase = "decoded" /\ call.op = "decodeInt" /\ ret.ok
  /\ bytes = <<195, 95, 65, 0, 66, 0, 0, 255>>
  /\ ret.val = IntOf(TRUE, BigOfNat(1))

\* 24 came in a head of eight argument bytes
C28_WitnessWideHead ==
  /\ phase = "decoded" /\ call.op = "decodeInt" /\ ret.ok
  /\ bytes = <<27, 0, 0, 0, 0, 0, 0, 0, 24>>
  /\ ret.val = IntOfNat(24)

\* tag 4 in front of a byte string was refused
C28_WitnessOtherTag ==
  /\ phase = "decoded" /\ call.op = "decodeInt" /\ ~ret.ok
  /\ bytes = <<196, 65, 1>>

----------------------------------------------------------------------------
(* the loops of decodeList, decodeMap and decodeBytes, one iteration per step *)

\* bytes after the container's head
MaxBody == 3

\* an integer in one byte, an integer head that needs one more byte, a byte
\* string of one byte, an empty byte string, the break byte
BodyBytes == { 0, 24, 65, 64, 255 }

\* heads in front of the body: empty and short definite counts, a count of
\* 65535, the indefinite head, a head of another major type, and no head at all
LoopHeads(m) ==
  { <<>>, <<32 * m>>, <<32 * m + 1>>, <<32 * m + 2>>, <<32 * m + 25, 255, 255>>,
    <<32 * m + 31>>, <<32 * ((m + 1) % 8) + 1>> }

LoopMajor(dec) == IF dec = "decodeList" THEN 4 ELSE IF dec = "decodeMap" THEN 5 ELSE 2

LoopInputs ==
  UNION { { [kind |-> "loop", dec |-> dec, bs |-> h \o b] :
            h \in LoopHeads(LoopMajor(dec)), b \in SeqsUpTo(BodyBytes, MaxBody) } :
          dec \in { "decodeList", "decodeMap", "decodeBytes" } }

InitLoop ==
  /\ bytes = <<>>
  /\ cursors = <<0>>
  /\ call = [op |-> "none", cur |-> 1, n |-> 0, before |-> <<0>>]
  /\ ret = Ok(<<>>, 0)
  /\ input \in LoopInputs
  /\ wire = EncOk(input.bs)
  /\ phase = "encoded"
  /\ closure = NoClosure

\* the loop variables: the form of the container, the count of the definite
\* form and the index i
LoopVars(dec, indef, n) ==
  [variant |-> dec, indef |-> indef, n |-> n, i |-> 0, done |-> FALSE]

\* the code in front of the loop: the peek for the indefinite head, then the
\* shift of that head or decodeDefHead and the test of the major type; for a
\* definite byte string the shiftMany that ends the decoder
BeforeLoop(dec, bs) ==
  With(peekOne(bs, 0), LAMBDA pk :
    IF ~pk.ok THEN [r |-> pk, vars |-> NoClosure, phase |-> "failed"]
    ELSE IF pk.val = 32 * LoopMajor(dec) + 31 THEN
      [r |-> shiftOne(bs, 0), vars |-> LoopVars(dec, TRUE, 0), phase |-> "looping"]
    ELSE
      With(decodeDefHead(bs, 0), LAMBDA h :
        IF ~h.ok THEN [r |-> h, vars |-> NoClosure, phase |-> "failed"]
        ELSE IF h.val.m # LoopMajor(dec)
          THEN [r |-> Fail("DecodeError", h.pos), vars |-> NoClosure, phase |-> "failed"]
        ELSE IF dec = "decodeBytes" THEN
          With(shiftMany(bs, h.pos, BigToNat(h.val.n)), LAMBDA b :
            [r |-> b, vars |-> NoClosure, phase |-> IF b.ok THEN "done" ELSE "failed"])
        ELSE [r |-> h, vars |-> LoopVars(dec, FALSE, BigToNat(h.val.n)),
              phase |-> "looping"]))

\* the loop's test: (yield* stream.peekOne()) != 255, or i < n
LoopTest(cl, bs, p) ==
  IF cl.indef THEN Bind(peekOne(bs, p), LAMBDA pk : Ok(pk.val # 255, p))
  ELSE Ok(cl.i < cl.n, p)

\* one chunk of an indefinite byte string
BytesChunk(bs, p) ==
  Bind(decodeDefHead(bs, p), LAMBDA h :
    IF BigLT(BigOfNat(64), h.val.n) THEN Fail("DecodeError", h.pos)
    ELSE shiftMany(bs, h.pos, BigToNat(h.val.n)))

\* the loop's body, with decodeInt for the item, the key and the value
LoopBody(cl, bs, p) ==
  IF cl.variant = "decodeList" THEN ApplyDecoder([kind |-> "int"], bs, p, cl.i)
  ELSE IF cl.variant = "decodeMap"
    THEN decodeMapPair([kind |-> "int"], [kind |-> "int"], bs, p)
  ELSE BytesChunk(bs, p)

\* a loop that goes on after a failed body
AfterBodyRetry(r) == "looping"

\* a failed yield* ends the generator, and with it the loop
AfterBody(r) == IF r.ok THEN "looping" ELSE "failed"

StartLoop ==
  /\ phase = "encoded"
  /\ LET out == BeforeLoop(input.dec, wire.bytes)
     IN  /\ cursors' = <<out.r.pos>>
         /\ ret' = out.r
         /\ closure' = out.vars
         /\ phase' = out.phase
  /\ bytes' = wire.bytes
  /\ call' = [op |-> "start", cur |-> 1, n |-> 0, before |-> cursors]
  /\ UNCHANGED <<input, wire>>

\* the test is true: one run of the body
Iterate ==
  /\ phase = "looping"
  /\ LoopTest(closure, bytes, cursors[1]).ok
  /\ LoopTest(closure, bytes, cursors[1]).val
  /\ LET r == LoopBody(closure, bytes, cursors[1])
     IN  /\ cursors' = <<r.pos>>
         /\ ret' = r
         /\ closure' = IF r.ok THEN [closure EXCEPT !.i = closure.i + 1] ELSE closure
         /\ phase' = AfterBody(r)
  /\ call' = [op |-> "iterate", cur |-> 1, n |-> 0, before |-> cursors]
  /\ UNCHANGED <<bytes, input, wire>>

\* the test fails or is false: the loop ends, and the indefinite form shifts
\* the break byte
ExitLoop ==
  /\ phase = "looping"
  /\ LET t == LoopTest(closure, bytes, cursors[1])
         r == IF ~t.ok THEN t
              ELSE IF closure.indef THEN shiftOne(bytes, cursors[1])
              ELSE Ok(<<>>, cursors[1])
     IN  /\ IF t.ok THEN ~t.val ELSE TRUE
         /\ cursors' = <<r.pos>>
         /\ ret' = r
         /\ phase' = IF r.ok THEN "done" ELSE "failed"
         /\ closure' = [closure EXCEPT !.done = r.ok]
  /\ call' = [op |-> "exit", cur |-> 1, n |-> 0, before |-> cursors]
  /\ UNCHANGED <<bytes, input, wire>>

NextLoop == StartLoop \/ Iterate \/ ExitLoop

SpecLoop == InitLoop /\ [][NextLoop]_vars

Ended == phase \in { "done", "failed" }

\* what the decoder answers on the whole buffer
Decoded ==
  IF input.dec = "decodeList" THEN decodeList([kind |-> "int"], input.bs, 0)
  ELSE IF input.dec = "decodeMap"
    THEN decodeMap([kind |-> "int"], [kind |-> "int"], input.bs, 0)
  ELSE decodeBytes(input.bs, 0)

\* the steps end where the decoder ends, with its outcome
LoopIsTheDecoder ==
  Ended => /\ (phase = "done") = Decoded.ok
           /\ cursors[1] = Decoded.pos
           /\ phase = "failed" => ret.err = Decoded.err

\* the bytes still unread: what every iteration has to make smaller
Unread == Len(input.bs) - cursors[1]

\* C29: with item, key and value decoders that read at least one byte or fail,
\* decodeList, decodeMap and decodeBytes end on every finite buffer: every
\* iteration of a loop moves the cursor forward or ends the decoder with an
\* error, the cursor never passes the end of the buffer (so there are at most
\* as many iterations as bytes), and nothing runs after the decoder has failed
\* or returned.
C29_LoopsTerminate ==
  /\ [](Unread >= 0 /\ (phase = "looping" => closure.i <= cursors[1]))
  /\ [][phase = "looping" =>
         \/ cursors'[1] > cursors[1] /\ phase' \in { "looping", "done" }
         \/ phase' = "failed"
         \/ phase' = "done" /\ call'.op = "exit" /\ ~closure.indef]_vars
  /\ [][~Ended]_vars

\* a map's loop ended with an error in its second pair, after one full pair
C29_WitnessAbortInSecondPair ==
  /\ phase = "failed" /\ call.op = "iterate"
  /\ input.dec = "decodeMap" /\ closure.i = 1
  /\ cursors[1] > call.before[1]

\* a list announced 65535 items and the loop ended at the end of the buffer,
\* where decodeDefHead finds no head
C29_WitnessCountBeyondBuffer ==
  /\ phase = "failed" /\ ret.err = "DecodeError" /\ cursors[1] = Len(bytes)
  /\ input.dec = "decodeList" /\ closure.n = 65535 /\ closure.i = MaxBody

====
